---- MODULE Spec2Model ----
(***************************************************************************)
(* Verification model of mas_poc (firststage): the KB agent's append-only  *)
(* versioned store (agent/kbagent.py), the correlation book                *)
(* (protocol/correlation.py), the Directory Facilitator                    *)
(* (agent/registry.py), the Coordinator's ServeConversation and            *)
(* Dispatcher (agent/coordinator.py), the Presenter (agent/presenter.py)   *)
(* and the ACL frames (protocol/acl_messages.py).                          *)
(*                                                                         *)
(* Text values (jids, keys, if_match, performatives) are sequences of      *)
(* one-character strings, so that split, lower, upper, isdigit, int() and  *)
(* the key regex are computed character by character.                      *)
(***************************************************************************)
EXTENDS Integers, Sequences, FiniteSets, TLC

VARIABLES
    scenario,   \* which family of frames the environment sends (fixed by Init)
    rows,       \* table kb_items: the committed rows
    etagSeq,    \* number of uuid4 tokens stored so far
    pc,         \* per KBCycle: position inside run()/store()
    req,        \* per KBCycle: the frame being (or last) handled
    ver,        \* per KBCycle: local `version` computed by _next_version
    reply,      \* per KBCycle: the reply sent for req (NoReply while pending)
    startMax,   \* history, per KBCycle: the key's highest version when req arrived
    byConv,     \* CorrBook._by_conv
    now,        \* time.time()
    corrCall,   \* the last CorrBook call with its return value
    consumed,   \* history: (conv, reply_with) pairs consumed and not registered again
    catalog,    \* RegistryAgent.catalog: jid -> record, in insertion order
    cap2jids,   \* RegistryAgent.cap2jids: capability -> list of jids, in insertion order
    lastCleanup,\* RegistryAgent._last_cleanup (0.0 at start: the first cleanup is due at once)
    dfNow,      \* time.time() at the DF
    dfPc,       \* DFBehaviour.run: "top", "recv" (in receive) or "late" (a second passed in receive)
    dfLast,     \* the frame DFBehaviour.run handled in the step just taken, with the frame it sent
    coPc,       \* ServeConversation.run: "idle" (not spawned), "df", "select", "ask", "wait", "grace", "done"
    coSelf,     \* ServeConversation's fields (conv_id, presenter_jid) and the USER_MSG it serves
    coCands,    \* run(): candidates, the normalized DF profiles
    coSel,      \* history: what the Selector call produced
    coTry,      \* run(): ordered_try
    coHist,     \* run(): where history_for_specialist comes from ("timeline" or "after_user")
    coAttempts, \* run(): attempts
    coOut,      \* the frames ServeConversation sent to the DF, the Specialists and the Presenter
    coExc,      \* an exception left run() (its finally block still runs)
    coGot,      \* history: the INFORM.RESULT frames ask_specialist took from the queue
    coRaw,      \* run(): raw_candidates, what df_lookup returned
    dQueues,    \* CoordinatorAgent.conv_queues: the conversation ids that have a queue
    dTasks,     \* the ServeConversation of each conversation id: "none", "new", "waiting", "running", "grace"
    dSem,       \* CoordinatorAgent.sem: the free permits
    dWaiters,   \* CoordinatorAgent.sem: the tasks waiting in acquire, first come first
    dLast,      \* what Dispatcher.run did with the frame it handled in the step just taken
    pTasks,     \* the Presenter's ServeConversation of each question: "none", "new", "wait", "grace", "done"
    pLock,      \* PresenterAgent.session_lock is held
    pHasQueue,  \* PresenterAgent.conv_queues has a queue for the session's conversation_id
    pQueue,     \* the frames in that queue
    pDeadline,  \* wait_for_reply: deadline
    pOut,       \* the USER_MSG frames the Presenter sent
    pShown,     \* the frames whose text wait_for_reply returned
    pLast,      \* what the Presenter's Dispatcher did with the frame it handled in the step just taken
    aclIn,      \* the arguments of the make_acl or AclMessage.loads call
    aclOut,     \* the frame the call produced
    coDfEnd,    \* history: what ended df_lookup ("lists", "inform", "timeout"); "skipped" while it waits on
    tlKb,       \* the KB's latest version of session:<conv>:chat:timeline:main (ver 0: no such key)
    tlPc,       \* _kb_log_acl_and_update_timeline: "idle", "get" (waiting for the GET's reply), "put"
    tlItem,     \* _kb_log_acl_and_update_timeline: item, the entry being journaled
    tlRead,     \* _kb_log_acl_and_update_timeline: (curr, ver), what _kb_get_timeline returned
    tlLast      \* the timeline STORE just sent, with the KB's state when it was sent

kbVars == <<scenario, rows, etagSeq, pc, req, ver, reply, startMax>>
corrVars == <<byConv, now, corrCall, consumed>>
dfVars == <<catalog, cap2jids, lastCleanup, dfNow, dfPc, dfLast>>
coVars == <<coPc, coSelf, coCands, coSel, coTry, coHist, coAttempts, coOut, coExc, coGot, coRaw,
           coDfEnd>>
dVars == <<dQueues, dTasks, dSem, dWaiters, dLast>>
pVars == <<pTasks, pLock, pHasQueue, pQueue, pDeadline, pOut, pShown, pLast>>
aclVars == <<aclIn, aclOut>>
tlVars == <<tlKb, tlPc, tlItem, tlRead, tlLast>>
exceptKB == <<corrVars, dfVars, coVars, dVars, pVars, aclVars, tlVars>>
exceptCorr == <<kbVars, dfVars, coVars, dVars, pVars, aclVars, tlVars>>
exceptDF == <<kbVars, corrVars, coVars, dVars, pVars, aclVars, tlVars>>
exceptCo == <<kbVars, corrVars, dfVars, dVars, pVars, aclVars, tlVars>>
exceptD == <<kbVars, corrVars, dfVars, coVars, pVars, aclVars, tlVars>>
exceptP == <<kbVars, corrCall, consumed, dfVars, coVars, dVars, aclVars, tlVars>>
exceptAcl == <<kbVars, corrVars, dfVars, coVars, dVars, pVars, tlVars>>
exceptTl == <<kbVars, corrVars, dfVars, coVars, dVars, pVars, aclVars>>
vars == <<kbVars, corrVars, dfVars, coVars, dVars, pVars, aclVars, tlVars>>

(***************************************************************************)
(* Text helpers                                                            *)
(***************************************************************************)
LowerAlpha == <<"a","b","c","d","e","f","g","h","i","j","k","l","m",
                "n","o","p","q","r","s","t","u","v","w","x","y","z">>
UpperAlpha == <<"A","B","C","D","E","F","G","H","I","J","K","L","M",
                "N","O","P","Q","R","S","T","U","V","W","X","Y","Z">>
Digits == <<"0","1","2","3","4","5","6","7","8","9">>
LF == "\n"

Range(s) == {s[i] : i \in 1..Len(s)}

IndexIn(alpha, c) == CHOOSE i \in 1..Len(alpha) : alpha[i] = c

\* str.lower() on one character
LowerChar(c) == IF c \in Range(UpperAlpha) THEN LowerAlpha[IndexIn(UpperAlpha, c)] ELSE c
\* str.upper() on one character
UpperChar(c) == IF c \in Range(LowerAlpha) THEN UpperAlpha[IndexIn(LowerAlpha, c)] ELSE c

Lower(s) == [i \in 1..Len(s) |-> LowerChar(s[i])]
Upper(s) == [i \in 1..Len(s) |-> UpperChar(s[i])]

\* s.split("/")[0]
BeforeSlash(s) ==
    IF \E i \in 1..Len(s) : s[i] = "/"
    THEN SubSeq(s, 1, (CHOOSE i \in 1..Len(s) : s[i] = "/" /\ \A j \in 1..(i-1) : s[j] # "/") - 1)
    ELSE s

\* str.isdigit(): non-empty and digits only
IsDigit(s) == Len(s) > 0 /\ \A i \in 1..Len(s) : s[i] \in Range(Digits)

DigitVal(c) == IndexIn(Digits, c) - 1

RECURSIVE IntOf(_)
\* int(s) for a digit string
IntOf(s) == IF Len(s) = 0 THEN 0
            ELSE 10 * IntOf(SubSeq(s, 1, Len(s) - 1)) + DigitVal(s[Len(s)])

RECURSIVE DecStr(_)
\* str(n) for a natural number
DecStr(n) == IF n < 10 THEN <<Digits[n + 1]>>
             ELSE DecStr(n \div 10) \o <<Digits[(n % 10) + 1]>>

(***************************************************************************)
(* Dictionaries                                                            *)
(***************************************************************************)
\* d without key k
Without(d, k) == [x \in (DOMAIN d) \ {k} |-> d[x]]
\* d with d[k] = v
With(d, k, v) == [x \in (DOMAIN d) \cup {k} |-> IF x = k THEN v ELSE d[x]]

EmptyDict == [x \in {} |-> 0]

\* in_reply_to None or "": both are falsy
NoRid == ""

\* the last call on the book: its arguments, its return value and the
\* (conv, reply_with) pairs it removed
Call(op, conv, irt, from, pf, result, removed) ==
    [op |-> op, conv |-> conv, irt |-> irt, from |-> from, pf |-> pf, result |-> result,
     removed |-> removed]

NoCall == Call("none", "", NoRid, <<>>, <<>>, FALSE, {})

\* DF_HEARTBEAT_SEC, DF_TTL_MULTIPLIER, DF_CLEANUP_PERIOD as the environment
\* sets them (the values of the DF TTL scenario; the defaults are 30, 3, 10)
HEARTBEAT_SEC == 1
TTL_MULTIPLIER == 3
CLEANUP_PERIOD == 1

\* a frame the DF receives.  kind: the branch of DFBehaviour.run its
\* performative and content.type select; has_*: the key is present
DfMsg(kind, has_jid, jid, has_caps, caps, status, qtype, need, conv, rw) ==
    [kind |-> kind, has_jid |-> has_jid, jid |-> jid, has_caps |-> has_caps, caps |-> caps,
     status |-> status, qtype |-> qtype, need |-> need, conversation_id |-> conv,
     reply_with |-> rw, has_name |-> FALSE, name |-> <<>>]

\* the same frame with a field "name" in its profile (REGISTER) or content
Named(m, name) == [m EXCEPT !.has_name = TRUE, !.name = name]

\* a frame the DF sends (make_acl): performative, content.status or
\* content.reason, content.candidates, content.profiles
DfFrame(pf, word, candidates, profiles, conv, irt) ==
    [performative |-> pf, word |-> word, candidates |-> candidates, profiles |-> profiles,
     conversation_id |-> conv, in_reply_to |-> irt]

NoFrame == DfFrame("none", "", <<>>, <<>>, "", "")

\* a frame handled by the DF, the frame sent for it, and whether the frame's
\* jid was in the catalog when it arrived
Exchange(msg, sent, known) == [msg |-> msg, sent |-> sent, known |-> known]

NoExchange ==
    Exchange(DfMsg("none", FALSE, <<>>, FALSE, {}, "", "", <<>>, "", ""), NoFrame, FALSE)

\* ServeConversation(presenter_jid, conv_id, orig_acl): orig_acl by the
\* fields of the USER_MSG that the Dispatcher reads
Task(conv_id, presenter_jid, question, conv, reply_with, meta, sender) ==
    [conv_id |-> conv_id, presenter_jid |-> presenter_jid, question |-> question,
     conv |-> conv, reply_with |-> reply_with, meta |-> meta, sender |-> sender]

NoTask == Task("", <<>>, "", "", "", <<>>, <<>>)

\* an INFORM.RESULT of the conversation: it answers the attempt-th
\* REQUEST.ASK_EXPERT (in_reply_to is that request's reply_with), comes
\* from the specialist that request went to, and is taken from the queue
\* in the wait of the during-th attempt
Result(attempt, during, from, answer) ==
    [attempt |-> attempt, during |-> during, from |-> from, answer |-> answer]

\* CoordinatorAgent.sem = asyncio.Semaphore(MAX_CONCURRENCY)
MAX_CONCURRENCY == 5

\* the conversation_id the Dispatcher gives a USER_MSG that has none
SessConv == "sess-0"

\* the conversation ids in use: one more than there are permits
DispConvs == {"c1", "c2", "c3", "c4", "c5", SessConv}

\* what Dispatcher.run did with a frame: kind is "USER_MSG" or "other",
\* conv the frame's conversation_id, outcome "spawned", "discarded",
\* "queued" or "dropped"
Dispatch(kind, conv, outcome) == [kind |-> kind, conv |-> conv, outcome |-> outcome]

NoDispatch == Dispatch("", "", "")

\* the Selector call: it raised, or it returned a result with an error, or
\* a text that is no JSON, or a JSON object whose selected_jid is jid
\* (<<>> when the object has none)
Selection(kind, jid) == [kind |-> kind, jid |-> jid]

NoSelection == Selection("", <<>>)

\* the questions typed in the Presenter's REPL, in the order typed
Questions == {1, 2}

\* a frame the Presenter receives: msg.sender and the ACL fields its
\* Dispatcher and wait_for_reply read
PFrame(from, pf, type, conv, irt, text) ==
    [from |-> from, performative |-> pf, type |-> type, conversation_id |-> conv,
     in_reply_to |-> irt, text |-> text]

NoPFrame == PFrame(<<>>, <<>>, "", "", "", "")

\* what the Presenter's Dispatcher did with a frame: "no_conv", "dropped"
\* (the correlation guard refused it), "queued" or "no_queue"; expected:
\* the book held (conversation_id, in_reply_to) when the frame arrived
PresLast(frame, outcome, expected) ==
    [frame |-> frame, outcome |-> outcome, expected |-> expected]

NoPresLast == PresLast(NoPFrame, "none", FALSE)

\* the arguments of make_acl / of the JSON body given to AclMessage.loads:
\* performative as written, and protocol: "absent" (argument not given, key
\* not in the body), "null" (None, JSON null) or "str" with its text
AclCall(op, performative, pkind, protocol) ==
    [op |-> op, performative |-> performative, pkind |-> pkind, protocol |-> protocol]

NoAclCall == AclCall("none", <<>>, "absent", <<>>)

\* the AclMessage a call built (ok) or the validation error it raised
AclFrame(ok, performative, protocol) ==
    [ok |-> ok, performative |-> performative, protocol |-> protocol]

NoAclFrame == AclFrame(FALSE, <<>>, <<>>)

\* the KB's row of the timeline key with the highest version
Timeline(version, value) == [ver |-> version, value |-> value]

NoTimeline == Timeline(0, <<>>)

\* what _kb_get_timeline returned: (list, version), ver 0 for None; how:
\* the frame or the timeout that ended it
Read(value, version, how) == [value |-> value, ver |-> version, how |-> how]

NoRead == Read(<<>>, 0, "")

\* a timeline STORE: value, if_match (<<>> for None), and the KB's row when
\* it was sent
Store(value, if_match, kb) == [value |-> value, if_match |-> if_match, kb |-> kb]

NoStore == Store(<<>>, <<>>, NoTimeline)

(***************************************************************************)
(* KB agent: constants and pure functions                                  *)
(***************************************************************************)
\* bound: total number of rows the table may hold
MaxRows == 3

\* the KBCycle instances (KB agent processes) sharing one database
Handlers == {"h1", "h2"}

\* the character class [a-z0-9._-]
KeyChars == Range(LowerAlpha) \cup Range(Digits) \cup {".", "_", "-"}

RECURSIVE SegEnd(_, _)
\* [a-z0-9._-]+ is greedy: the position after the longest run of class
\* characters starting at i (i itself when the run is empty)
SegEnd(s, i) == IF i <= Len(s) /\ s[i] \in KeyChars THEN SegEnd(s, i + 1) ELSE i

RECURSIVE MatchFrom(_, _, _)
\* KEY_RE from position i with k segments still to match.  The final `$`
\* (no MULTILINE) matches at the end of the string and also just before a
\* newline that is the last character.
MatchFrom(s, i, k) ==
    LET e == SegEnd(s, i) IN
    IF e = i THEN FALSE
    ELSE IF k = 1 THEN (e = Len(s) + 1) \/ (e = Len(s) /\ s[e] = LF)
    ELSE e <= Len(s) /\ s[e] = ":" /\ MatchFrom(s, e + 1, k - 1)

KEY_RE_match(key) == MatchFrom(key, 1, 5)

\* bare(jid): None for a missing jid, else str(jid).split("/")[0]; the
\* caller's `or ""` turns None into "" (the empty sequence stands for both)
bare(jid) == IF Len(jid) = 0 THEN <<>> ELSE BeforeSlash(jid)

KB_ALLOWED_COORDINATOR_JID == Lower(BeforeSlash(<<"c","o","@","x">>))

\* uuid4 as text: a token that was never issued before
EtagText(n) == <<"e", "-">> \o DecStr(n)

KeyRows(tbl, key) == {r \in tbl : r.key = key}

\* SELECT COALESCE(MAX(version),0) FROM kb_items WHERE key=%s
MaxVersionSql(tbl, key) ==
    IF KeyRows(tbl, key) = {} THEN 0
    ELSE CHOOSE v \in {r.version : r \in KeyRows(tbl, key)} :
            \A r \in KeyRows(tbl, key) : r.version <= v

\* if_match "vN": startswith("v") and the rest isdigit()
IsVersionTag(ifm) == Len(ifm) >= 1 /\ ifm[1] = "v" /\ IsDigit(Tail(ifm))

\* SELECT 1 FROM kb_items WHERE key=%s AND etag::text=%s ORDER BY version DESC LIMIT 1
IfMatchEtagFound(tbl, key, ifm) ==
    \E r \in KeyRows(tbl, key) : r.etag = ifm

\* the if_match block of KBStorage.store: TRUE when no ConflictError is raised
\* (None and "" are both falsy and skip the block)
IfMatchPasses(tbl, key, ifm) ==
    IF Len(ifm) = 0 THEN TRUE
    ELSE IF IsVersionTag(ifm) THEN MaxVersionSql(tbl, key) = IntOf(Tail(ifm))
    ELSE IfMatchEtagFound(tbl, key, ifm)

\* _next_version: SELECT COALESCE(MAX(version),0)+1
NextVersionSql(tbl, key) == MaxVersionSql(tbl, key) + 1

\* mutant: no unique index on (key, version)
UniqueViolation_NoIndex(tbl, key, version) == FALSE

\* the unique index kb_items_key_version_uq rejects the INSERT
UniqueViolation(tbl, key, version) == \E r \in tbl : r.key = key /\ r.version = version

(***************************************************************************)
(* KB agent: frames sent to the KB                                         *)
(***************************************************************************)
Coordinator == <<"c","o","@","x">>

Key5(a, b, c, d, e) == <<a, ":", b, ":", c, ":", d, ":", e>>
KeyTimeline == Key5("s", "1", "c", "t", "m")
KeyFrame == Key5("s", "1", "c", "f", "1")

ValidKeys == {KeyTimeline, KeyFrame}

\* keys the key check is tried on: well-formed, too few and too many
\* segments, an empty segment, a character outside the class, an empty
\* key, a key followed by one or two newlines
ProbeKeys ==
    { KeyFrame,
      <<"b","a","d">>,
      <<"s",":","1",":","c",":","f">>,
      KeyFrame \o <<":","x">>,
      <<"s",":",":","c",":","f",":","1">>,
      Key5("S", "1", "c", "f", "1"),
      <<>>,
      KeyFrame \o <<LF>>,
      KeyFrame \o <<LF, LF>> }

Values == {"a", "b"}

ProbeSenders ==
    { Coordinator,
      <<"C","o","@","X","/","r">>,
      <<"m","@","x">>,
      <<"c","o","@","x","x">>,
      <<>> }

\* if_match values: absent, "v0".."vMaxRows", a bare "v", every etag the
\* store can have issued
IfMatchInputs ==
    {<<>>, <<"v">>}
    \cup {<<"v">> \o DecStr(n) : n \in 0..MaxRows}
    \cup {EtagText(n) : n \in 1..MaxRows}

\* the explicit `version` values a GET is tried with
GetVersions == {1, 2}

Frame(sender, json, type, key, ifm, value, hasVersion, version) ==
    [sender |-> sender, json |-> json, type |-> type, key |-> key, if_match |-> ifm,
     value |-> value, hasVersion |-> hasVersion, version |-> version]

\* scenario "storage": the Coordinator's STORE and GET traffic on valid keys,
\* handled by every KBCycle
StorageFrames ==
    {Frame(Coordinator, TRUE, "STORE", k, m, "a", FALSE, 0) :
        k \in ValidKeys, m \in IfMatchInputs}
    \cup {Frame(Coordinator, TRUE, "GET", k, <<>>, "a", FALSE, 0) : k \in ValidKeys}
    \cup {Frame(Coordinator, TRUE, "GET", k, <<>>, "a", TRUE, n) :
            k \in ValidKeys, n \in GetVersions}

\* scenario "frames", handled by one KBCycle: every sender with a JSON body
\* of each type (on a good and on a bad key) and with a body that is not
\* JSON; the Coordinator's STORE and GET on every probe key
ProbeFrames ==
    {Frame(s, TRUE, t, k, <<>>, "a", FALSE, 0) :
        s \in ProbeSenders, t \in {"STORE", "GET", "PING"}, k \in {KeyFrame, <<"b","a","d">>}}
    \cup {Frame(s, FALSE, "", <<>>, <<>>, "a", FALSE, 0) : s \in ProbeSenders}
    \cup {Frame(Coordinator, TRUE, "STORE", k, <<>>, v, FALSE, 0) :
            k \in ProbeKeys, v \in Values}
    \cup {Frame(Coordinator, TRUE, "GET", k, <<>>, "a", FALSE, 0) : k \in ProbeKeys}

Scenarios == {"storage", "frames"}

FramesOf(sc) == IF sc = "storage" THEN StorageFrames ELSE ProbeFrames

HandlersOf(sc) == IF sc = "storage" THEN Handlers ELSE {"h1"}

NoReq == Frame(<<>>, FALSE, "none", <<>>, <<>>, "a", FALSE, 0)

Reply(perf, type, key, version, etag, value) ==
    [performative |-> perf, type |-> type, key |-> key, version |-> version,
     etag |-> etag, value |-> value]

NoReply == Reply("none", "none", <<>>, 0, <<>>, "a")

\* _reply_refuse / _reply_failure
ReplyRefuse(code) == Reply("REFUSE", code, <<>>, 0, <<>>, "a")
ReplyFailure(code) == Reply("FAILURE", code, <<>>, 0, <<>>, "a")
\* _reply_inform with a STORED or VALUE content
ReplyInform(type, row) == Reply("INFORM", type, row.key, row.version, row.etag, row.value)

Row(key, version, etag, value) ==
    [key |-> key, version |-> version, etag |-> etag, value |-> value, deleted |-> FALSE]

(***************************************************************************)
(* KBStorage.get                                                           *)
(***************************************************************************)
\* the rows the SELECT of KBStorage.get ranges over
GetCandidates(tbl, f) ==
    IF f.hasVersion
    THEN {r \in KeyRows(tbl, f.key) : r.version = f.version /\ ~r.deleted}
    ELSE {r \in KeyRows(tbl, f.key) : ~r.deleted}

\* mutant: ORDER BY version ASC
GetPick_Oldest(cands) == CHOOSE r \in cands : \A q \in cands : r.version <= q.version

\* ORDER BY version DESC LIMIT 1
GetPick(cands) == CHOOSE r \in cands : \A q \in cands : q.version <= r.version

\* _handle_get after the key check: VALUE, or FAILURE.NOT_FOUND on NotFoundError
GetReply(tbl, f) ==
    IF GetCandidates(tbl, f) = {} THEN ReplyFailure("FAILURE.NOT_FOUND")
    ELSE ReplyInform("VALUE", GetPick(GetCandidates(tbl, f)))

(***************************************************************************)
(* KBCycle.run                                                             *)
(***************************************************************************)
InitKB ==
    /\ scenario \in Scenarios
    /\ rows = {}
    /\ etagSeq = 0
    /\ pc = [h \in Handlers |-> "idle"]
    /\ req = [h \in Handlers |-> NoReq]
    /\ ver = [h \in Handlers |-> 0]
    /\ reply = [h \in Handlers |-> NoReply]
    /\ startMax = [h \in Handlers |-> 0]
    /\ byConv = EmptyDict
    /\ now = 0
    /\ corrCall = NoCall
    /\ consumed = {}
    /\ catalog = <<>>
    /\ cap2jids = <<>>
    /\ lastCleanup = 0 - (CLEANUP_PERIOD + 1)
    /\ dfNow = 0
    /\ dfPc = "top"
    /\ dfLast = NoExchange
    /\ coPc = "idle"
    /\ coSelf = NoTask
    /\ coCands = <<>>
    /\ coSel = NoSelection
    /\ coTry = <<>>
    /\ coHist = ""
    /\ coAttempts = 0
    /\ coOut = <<>>
    /\ coExc = FALSE
    /\ coGot = <<>>
    /\ coRaw = <<>>
    /\ dQueues = {}
    /\ dTasks = [c \in DispConvs |-> "none"]
    /\ dSem = MAX_CONCURRENCY
    /\ dWaiters = <<>>
    /\ dLast = NoDispatch
    /\ pTasks = [q \in Questions |-> "none"]
    /\ pLock = FALSE
    /\ pHasQueue = FALSE
    /\ pQueue = <<>>
    /\ pDeadline = 0
    /\ pOut = <<>>
    /\ pShown = <<>>
    /\ pLast = NoPresLast
    /\ aclIn = NoAclCall
    /\ aclOut = NoAclFrame
    /\ coDfEnd = ""
    /\ tlKb = NoTimeline
    /\ tlPc = "idle"
    /\ tlItem = 0
    /\ tlRead = NoRead
    /\ tlLast = NoStore

InFlight == {h \in Handlers : pc[h] # "idle"}

\* the sender check of run(): bare, lower-cased, compared with allowed_bare
Whitelisted(f) == Lower(bare(f.sender)) = KB_ALLOWED_COORDINATOR_JID

\* run() up to the call of storage.store / storage.get: the reply it sends at
\* once, or NoReply when the frame is a STORE that enters storage.store
RunReply(tbl, f) ==
    IF ~f.json THEN ReplyFailure("FAILURE.INVALID_JSON")
    ELSE IF ~Whitelisted(f) THEN ReplyRefuse("REFUSE.UNAUTHORIZED")
    ELSE IF f.type = "STORE" THEN
        (IF ~KEY_RE_match(f.key) THEN ReplyFailure("FAILURE.INVALID_KEY") ELSE NoReply)
    ELSE IF f.type = "GET" THEN
        (IF ~KEY_RE_match(f.key) THEN ReplyFailure("FAILURE.INVALID_KEY") ELSE GetReply(tbl, f))
    ELSE ReplyRefuse("REFUSE.UNSUPPORTED_TYPE")

\* One turn of KBCycle.run for a received frame.  A STORE that passes the
\* checks takes a pooled connection and goes on in storage.store; every
\* other frame is answered in this turn (storage.get is one SELECT).
Run(h) ==
    /\ pc[h] = "idle"
    /\ h \in HandlersOf(scenario)
    /\ \E f \in FramesOf(scenario) :
        /\ f.type = "STORE" => Cardinality(rows) + Cardinality(InFlight) < MaxRows
        /\ req' = [req EXCEPT ![h] = f]
        /\ reply' = [reply EXCEPT ![h] = RunReply(rows, f)]
        /\ pc' = [pc EXCEPT ![h] = IF RunReply(rows, f) = NoReply THEN "if_match" ELSE "idle"]
        /\ startMax' = [startMax EXCEPT ![h] =
                            IF f.type = "STORE" /\ IsVersionTag(f.if_match)
                            THEN MaxVersionSql(rows, f.key) ELSE 0]
    /\ UNCHANGED <<scenario, rows, etagSeq, ver>>
    /\ UNCHANGED exceptKB

\* storage.store, the if_match block: ConflictError leaves the transaction
\* (rollback) and _handle_store answers FAILURE.CONFLICT
StoreIfMatch(h) ==
    /\ pc[h] = "if_match"
    /\ IF IfMatchPasses(rows, req[h].key, req[h].if_match)
       THEN /\ pc' = [pc EXCEPT ![h] = "next_version"]
            /\ reply' = reply
       ELSE /\ pc' = [pc EXCEPT ![h] = "idle"]
            /\ reply' = [reply EXCEPT ![h] = ReplyFailure("FAILURE.CONFLICT")]
    /\ UNCHANGED <<scenario, rows, etagSeq, req, ver, startMax>>
    /\ UNCHANGED exceptKB

\* storage.store, version = self._next_version(conn, key)
StoreNextVersion(h) ==
    /\ pc[h] = "next_version"
    /\ ver' = [ver EXCEPT ![h] = NextVersionSql(rows, req[h].key)]
    /\ pc' = [pc EXCEPT ![h] = "insert"]
    /\ UNCHANGED <<scenario, rows, etagSeq, req, reply, startMax>>
    /\ UNCHANGED exceptKB

\* mutant: the write replaces the key's rows instead of appending
InsertRow_Replace(tbl, row) == {r \in tbl : r.key # row.key} \cup {row}

\* INSERT INTO kb_items ... : the table after the statement
InsertRow(tbl, row) == tbl \cup {row}

\* what _handle_store answers when the INSERT raises (psycopg2 IntegrityError
\* is not a ConflictError, so `except Exception` takes it)
InsertErrorReply == ReplyFailure("FAILURE.EXCEPTION")

\* storage.store, etag + INSERT + commit, and the reply of _handle_store.
\* The INSERT is the last statement of the transaction: an INSERT of a
\* (key, version) that another open transaction has inserted waits for that
\* commit and then fails, and no statement reads uncommitted rows, so INSERT
\* and COMMIT are one step.  A token generated for a failed INSERT is never
\* stored nor sent; etagSeq counts the stored ones.
StoreInsert(h) ==
    /\ pc[h] = "insert"
    /\ IF UniqueViolation(rows, req[h].key, ver[h])
       THEN /\ reply' = [reply EXCEPT ![h] = InsertErrorReply]
            /\ UNCHANGED <<rows, etagSeq>>
       ELSE LET row == Row(req[h].key, ver[h], EtagText(etagSeq + 1), req[h].value) IN
            /\ rows' = InsertRow(rows, row)
            /\ etagSeq' = etagSeq + 1
            /\ reply' = [reply EXCEPT ![h] = ReplyInform("STORED", row)]
    /\ pc' = [pc EXCEPT ![h] = "idle"]
    /\ ver' = [ver EXCEPT ![h] = 0]
    /\ UNCHANGED <<scenario, req, startMax>>
    /\ UNCHANGED exceptKB

KBNext ==
    \E h \in Handlers :
        \/ Run(h)
        \/ StoreIfMatch(h)
        \/ StoreNextVersion(h)
        \/ StoreInsert(h)

(***************************************************************************)
(* Correlation book (protocol/correlation.py)                              *)
(***************************************************************************)
\* bound: the last clock value
MaxTime == 2

Convs == {"c1", "c2"}
Rids == {"r1", "r2"}
INFORM == <<"I","N","F","O","R","M">>
AGREE == <<"A","G","R","E","E">>
REFUSE == <<"R","E","F","U","S","E">>
inform == <<"i","n","f","o","r","m">>

SenderS == <<"s","@","d">>
SenderZ == <<"z","@","d">>

\* PF-y traktowane jako "ack"
ACK_PFS == {AGREE}

\* register(conv, rid, ...) is called for these pairs (conversation "c2"
\* stays unknown to the book)
RegSlots == {<<"c1", "r1">>, <<"c1", "r2">>}

\* register(..., allow_from=, allow_pf=) arguments: one sender and one
\* performative (given in lower case), one sender and AGREE + INFORM, any
\* sender and AGREE + REFUSE, no restriction
Policy(allow_from, allow_pf) == [allow_from |-> allow_from, allow_pf |-> allow_pf]
Policies ==
    { Policy({SenderS}, {inform}),
      Policy({SenderS}, {AGREE, INFORM}),
      Policy({}, {AGREE, REFUSE}),
      Policy({}, {}) }

\* register(..., ttl_sec=)
Ttls == {1}

\* match_and_pop(..., from_bare=, performative=) arguments; <<>> is None
FromInputs == {SenderS, SenderZ, <<>>}
PfInputs == {inform, AGREE, REFUSE}

Unset == [isSet |-> FALSE, pfs |-> {}]
SetTo(pfs) == [isSet |-> TRUE, pfs |-> pfs]

\* register: the default consume_on policy
DefaultConsumeOn(pf_set) ==
    IF {AGREE, INFORM} \subseteq pf_set THEN SetTo({INFORM}) ELSE Unset

\* register: the Expectation it builds
Expectation(allow_from, allow_pf, ttl, t) ==
    LET pf_set == {Upper(pf) : pf \in allow_pf} IN
    [allow_from |-> allow_from, allow_pf |-> pf_set, expires_at |-> t + ttl,
     consume_on |-> DefaultConsumeOn(pf_set)]

\* bucket = _by_conv.setdefault(conv_id, {}); bucket[reply_with] = Expectation(...)
RegisterIn(book, conv, rid, exp) ==
    With(book, conv, With(IF conv \in DOMAIN book THEN book[conv] ELSE EmptyDict, rid, exp))

\* bucket.pop(rid, None); self._cleanup_conv(conv_id)
PopEntry(book, conv, rid) ==
    LET bucket == Without(book[conv], rid) IN
    IF DOMAIN bucket = {} THEN Without(book, conv) ELSE With(book, conv, bucket)

\* mutant: the sender is not checked
SenderAllowed_Any(exp, from) == TRUE

\* match_and_pop: the sender check ("Nadawca (jesli ograniczono)")
SenderAllowed(exp, from) ==
    ~(exp.allow_from # {} /\ (Len(from) = 0 \/ from \notin exp.allow_from))

\* mutant: a matching response never removes the entry
ShouldConsume_Never(exp, pf) == FALSE

\* mutant: every matching response removes the entry
ShouldConsume_Always(exp, pf) == TRUE

\* match_and_pop: the consumption policy
ShouldConsume(exp, pf) ==
    IF exp.consume_on.isSet THEN pf \in exp.consume_on.pfs
    ELSE ~(Cardinality(exp.allow_pf) > 1 /\ pf \in ACK_PFS)

\* mutant: a frame without in_reply_to is looked up like any other
Initiating_Never(irt) == FALSE

\* match_and_pop: `if not in_reply_to` (an initiating frame)
Initiating(irt) == irt = NoRid

\* match_and_pop: <<return value, book after the call>>
MatchAndPopResult(book, t, conv, irt, from, performative) ==
    IF Initiating(irt) THEN <<TRUE, book>>
    ELSE IF conv \notin DOMAIN book THEN <<FALSE, book>>
    ELSE IF irt \notin DOMAIN book[conv] THEN <<FALSE, book>>
    ELSE LET exp == book[conv][irt]
             pf == Upper(performative) IN
         IF t > exp.expires_at THEN <<FALSE, PopEntry(book, conv, irt)>>
         ELSE IF ~SenderAllowed(exp, from) THEN <<FALSE, book>>
         ELSE IF exp.allow_pf # {} /\ pf \notin exp.allow_pf THEN <<FALSE, book>>
         ELSE IF ShouldConsume(exp, pf) THEN <<TRUE, PopEntry(book, conv, irt)>>
         ELSE <<TRUE, book>>

\* mutant: sweep() empties the book
SweepResult_All(book, t) == EmptyDict

\* sweep(): the book without its expired entries and without empty buckets
SweepResult(book, t) ==
    LET kept(c) == {r \in DOMAIN book[c] : ~(t > book[c][r].expires_at)} IN
    [c \in {x \in DOMAIN book : kept(x) # {}} |-> [r \in kept(c) |-> book[c][r]]]

Entries(book) == {<<c, r>> \in Convs \X Rids : c \in DOMAIN book /\ r \in DOMAIN book[c]}

\* the consumption rule as the specification words it
SpecConsumes(exp, pf) ==
    \/ exp.consume_on.isSet /\ pf \in exp.consume_on.pfs
    \/ ~exp.consume_on.isSet /\ ~(Cardinality(exp.allow_pf) > 1 /\ pf = AGREE)

Register(conv, rid, allow_from, allow_pf, ttl) ==
    /\ byConv' = RegisterIn(byConv, conv, rid, Expectation(allow_from, allow_pf, ttl, now))
    /\ corrCall' = NoCall
    /\ consumed' = consumed \ {<<conv, rid>>}
    /\ UNCHANGED now
    /\ UNCHANGED exceptCorr

MatchAndPop(conv, irt, from, pf) ==
    LET res == MatchAndPopResult(byConv, now, conv, irt, from, pf) IN
    /\ byConv' = res[2]
    /\ corrCall' = Call("match_and_pop", conv, irt, from, pf, res[1],
                         Entries(byConv) \ Entries(res[2]))
    /\ consumed' = IF /\ res[1]
                      /\ <<conv, irt>> \in Entries(byConv)
                      /\ SpecConsumes(byConv[conv][irt], Upper(pf))
                   THEN consumed \cup {<<conv, irt>>}
                   ELSE consumed
    /\ UNCHANGED now
    /\ UNCHANGED exceptCorr

Sweep ==
    /\ byConv' = SweepResult(byConv, now)
    /\ corrCall' = Call("sweep", "", NoRid, <<>>, <<>>, FALSE,
                         Entries(byConv) \ Entries(SweepResult(byConv, now)))
    /\ UNCHANGED <<now, consumed>>
    /\ UNCHANGED exceptCorr

\* time.time() advances
Tick ==
    /\ now < MaxTime
    /\ now' = now + 1
    /\ corrCall' = NoCall
    /\ UNCHANGED <<byConv, consumed>>
    /\ UNCHANGED exceptCorr

CorrNext ==
    \/ \E slot \in RegSlots, p \in Policies, ttl \in Ttls :
            Register(slot[1], slot[2], p.allow_from, p.allow_pf, ttl)
    \/ \E conv \in Convs, irt \in Rids \cup {NoRid}, from \in FromInputs, pf \in PfInputs :
            MatchAndPop(conv, irt, from, pf)
    \/ Sweep
    \/ Tick

InitCorr ==
    /\ byConv = EmptyDict
    /\ now = 0
    /\ corrCall = NoCall
    /\ consumed = {}
    /\ scenario = "storage"
    /\ rows = {}
    /\ etagSeq = 0
    /\ pc = [h \in Handlers |-> "idle"]
    /\ req = [h \in Handlers |-> NoReq]
    /\ ver = [h \in Handlers |-> 0]
    /\ reply = [h \in Handlers |-> NoReply]
    /\ startMax = [h \in Handlers |-> 0]
    /\ catalog = <<>>
    /\ cap2jids = <<>>
    /\ lastCleanup = 0 - (CLEANUP_PERIOD + 1)
    /\ dfNow = 0
    /\ dfPc = "top"
    /\ dfLast = NoExchange
    /\ coPc = "idle"
    /\ coSelf = NoTask
    /\ coCands = <<>>
    /\ coSel = NoSelection
    /\ coTry = <<>>
    /\ coHist = ""
    /\ coAttempts = 0
    /\ coOut = <<>>
    /\ coExc = FALSE
    /\ coGot = <<>>
    /\ coRaw = <<>>
    /\ dQueues = {}
    /\ dTasks = [c \in DispConvs |-> "none"]
    /\ dSem = MAX_CONCURRENCY
    /\ dWaiters = <<>>
    /\ dLast = NoDispatch
    /\ pTasks = [q \in Questions |-> "none"]
    /\ pLock = FALSE
    /\ pHasQueue = FALSE
    /\ pQueue = <<>>
    /\ pDeadline = 0
    /\ pOut = <<>>
    /\ pShown = <<>>
    /\ pLast = NoPresLast
    /\ aclIn = NoAclCall
    /\ aclOut = NoAclFrame
    /\ coDfEnd = ""
    /\ tlKb = NoTimeline
    /\ tlPc = "idle"
    /\ tlItem = 0
    /\ tlRead = NoRead
    /\ tlLast = NoStore

(***************************************************************************)
(* Directory Facilitator (agent/registry.py)                               *)
(***************************************************************************)
\* bound: the last clock value at the DF
MaxClock == 4

\* the characters in use, in code-point order (Python compares str by it)
Ascii == <<" ", "*", "-", ".", "/">> \o Digits \o <<":", "@">> \o UpperAlpha \o <<"_">> \o LowerAlpha

RECURSIVE TextLess(_, _)
\* a < b for str
TextLess(a, b) ==
    IF Len(a) = 0 THEN Len(b) > 0
    ELSE IF Len(b) = 0 THEN FALSE
    ELSE IF a[1] = b[1] THEN TextLess(Tail(a), Tail(b))
    ELSE IndexIn(Ascii, a[1]) < IndexIn(Ascii, b[1])

RECURSIVE SortedList(_)
\* sorted(set)
SortedList(S) ==
    IF S = {} THEN <<>>
    ELSE LET m == CHOOSE x \in S : \A y \in S \ {x} : TextLess(x, y) IN
         <<m>> \o SortedList(S \ {m})

RECURSIVE Strip(_)
\* str.strip() for blanks
Strip(t) ==
    IF Len(t) = 0 THEN t
    ELSE IF t[1] = " " THEN Strip(Tail(t))
    ELSE IF t[Len(t)] = " " THEN Strip(SubSeq(t, 1, Len(t) - 1))
    ELSE t

RECURSIVE RemoveFirst(_, _)
\* list.remove(x): without the first occurrence of x
RemoveFirst(lst, x) ==
    IF Len(lst) = 0 THEN lst
    ELSE IF lst[1] = x THEN Tail(lst)
    ELSE <<lst[1]>> \o RemoveFirst(Tail(lst), x)

\* a catalog record: the fields the DF itself reads or writes
\* name stands for every field that is just copied; <<>>: the key is absent
Record(jid, caps, last_seen, status, name) ==
    [jid |-> jid, capabilities |-> caps, last_seen |-> last_seen, status |-> status,
     name |-> name]

InCatalog(cat, jid) == \E i \in 1..Len(cat) : cat[i].jid = jid

\* catalog.get(jid)
CatGet(cat, jid) == cat[CHOOSE i \in 1..Len(cat) : cat[i].jid = jid]

\* catalog[jid] = rec: a known key keeps its place, a new one goes last
CatPut(cat, rec) ==
    IF InCatalog(cat, rec.jid)
    THEN [i \in 1..Len(cat) |-> IF cat[i].jid = rec.jid THEN rec ELSE cat[i]]
    ELSE Append(cat, rec)

\* catalog.pop(jid, None)
CatPop(cat, jid) == SelectSeq(cat, LAMBDA r : r.jid # jid)

CapEntry(cap, jids) == [cap |-> cap, jids |-> jids]

\* _upsert_profile, first loop over cap2jids: drop jid from the lists of
\* capabilities the record no longer has, pop every empty list
IndexPrune(idx, jid, caps) ==
    LET pruned == [i \in 1..Len(idx) |->
                     IF jid \in Range(idx[i].jids) /\ idx[i].cap \notin caps
                     THEN CapEntry(idx[i].cap, RemoveFirst(idx[i].jids, jid))
                     ELSE idx[i]] IN
    SelectSeq(pruned, LAMBDA e : e.jids # <<>>)

RECURSIVE IndexAdd(_, _, _)
\* _upsert_profile, second loop: setdefault(c, []) and append jid if absent,
\* for the record's capabilities in their (sorted) order
IndexAdd(idx, jid, capList) ==
    IF Len(capList) = 0 THEN idx
    ELSE LET c == capList[1]
             known == \E i \in 1..Len(idx) : idx[i].cap = c
             withKey == IF known THEN idx ELSE Append(idx, CapEntry(c, <<>>))
             added == [i \in 1..Len(withKey) |->
                         IF withKey[i].cap = c /\ jid \notin Range(withKey[i].jids)
                         THEN CapEntry(c, Append(withKey[i].jids, jid))
                         ELSE withKey[i]] IN
         IndexAdd(added, jid, Tail(capList))

\* mutant: the incoming capabilities replace the stored ones
UpsertProfile_Replace(cat, idx, m, t) ==
    LET old == IF InCatalog(cat, m.jid) THEN CatGet(cat, m.jid)
               ELSE Record(m.jid, {}, 0, "", <<>>)
        caps == IF m.has_caps THEN m.caps ELSE old.capabilities
        rec == Record(m.jid, caps, t, "online", IF m.has_name THEN m.name ELSE m.jid) IN
    <<CatPut(cat, rec), IndexAdd(IndexPrune(idx, m.jid, caps), m.jid, SortedList(caps))>>

\* _upsert_profile: <<catalog, cap2jids>> after it
UpsertProfile(cat, idx, m, t) ==
    LET old == IF InCatalog(cat, m.jid) THEN CatGet(cat, m.jid)
               ELSE Record(m.jid, {}, 0, "", <<>>)
        caps == IF m.has_caps THEN old.capabilities \cup m.caps ELSE old.capabilities
        name == IF m.has_name THEN m.name
                ELSE IF old.name = <<>> THEN m.jid
                ELSE old.name
        rec == Record(m.jid, caps, t, "online", name) IN
    <<CatPut(cat, rec), IndexAdd(IndexPrune(idx, m.jid, caps), m.jid, SortedList(caps))>>

\* _touch: the catalog after it (cap2jids is not touched)
Touch(cat, m, t) ==
    LET old == IF InCatalog(cat, m.jid) THEN CatGet(cat, m.jid)
               ELSE Record(m.jid, {}, 0, "", <<>>)
        rec == Record(m.jid,
                      IF m.has_caps THEN m.caps ELSE old.capabilities,
                      t,
                      IF m.status = "" THEN "online" ELSE m.status,
                      IF m.has_name THEN m.name ELSE old.name) IN
    CatPut(cat, rec)

\* mutant: _remove forgets the capability index
Remove_CatalogOnly(cat, idx, jid) == <<CatPop(cat, jid), idx>>

\* _remove: <<catalog, cap2jids>> after it
Remove(cat, idx, jid) ==
    IF ~InCatalog(cat, jid) THEN <<cat, idx>>
    ELSE LET pruned == [i \in 1..Len(idx) |->
                          IF jid \in Range(idx[i].jids)
                          THEN CapEntry(idx[i].cap, RemoveFirst(idx[i].jids, jid))
                          ELSE idx[i]] IN
         <<CatPop(cat, jid),
           SelectSeq(pruned, LAMBDA e : ~(e.jids = <<>> /\ \E i \in 1..Len(idx) :
                                            idx[i].cap = e.cap /\ jid \in Range(idx[i].jids)))>>

RECURSIVE GcFrom(_, _, _, _)
\* _gc: the loop over list(self.catalog.items()), from the snapshot's first
\* record on
GcFrom(snapshot, cat, idx, t) ==
    IF Len(snapshot) = 0 THEN <<cat, idx>>
    ELSE LET p == snapshot[1]
             delta == t - p.last_seen IN
         IF delta > HEARTBEAT_SEC * TTL_MULTIPLIER
         THEN GcFrom(Tail(snapshot), Remove(cat, idx, p.jid)[1], Remove(cat, idx, p.jid)[2], t)
         ELSE IF delta > HEARTBEAT_SEC * 2
         THEN GcFrom(Tail(snapshot), CatPut(cat, [p EXCEPT !.status = "offline"]), idx, t)
         ELSE GcFrom(Tail(snapshot), cat, idx, t)

\* _gc: <<catalog, cap2jids>> after it
Gc(cat, idx, t) == GcFrom(cat, cat, idx, t)

\* alive at query time: now_ts - last_seen <= ttl_alive
Alive(rec, t) == t - rec.last_seen <= HEARTBEAT_SEC * 2

\* _alive_profiles(): copies of the live records, in catalog order
AliveProfiles(cat, t) == SelectSeq(cat, LAMBDA r : Alive(r, t))

\* [p.get("jid") for p in profiles]
JidsOf(profiles) == [i \in 1..Len(profiles) |-> profiles[i].jid]

\* need = str(need_raw).strip().upper()
NeedNorm(need_raw) == Upper(Strip(need_raw))

ALL == <<"A", "L", "L">>
Star == <<"*">>

RECURSIVE NeedJids(_, _)
\* jids.extend(lst) for every cap_key with cap_key.upper() == need
NeedJids(idx, need) ==
    IF Len(idx) = 0 THEN <<>>
    ELSE (IF Upper(idx[1].cap) = need THEN idx[1].jids ELSE <<>>) \o NeedJids(Tail(idx), need)

\* the `alive` list of the need=<capability> branch
NeedAlive(cat, jids, t) ==
    SelectSeq(jids, LAMBDA j : InCatalog(cat, j) /\ Alive(CatGet(cat, j), t))

\* the INFORM a QUERY-REF is answered with
QueryFrame(cat, idx, m, t) ==
    LET profiles ==
            IF m.qtype = "LIST" THEN AliveProfiles(cat, t)
            ELSE IF m.qtype = "DUMP" THEN cat
            ELSE IF NeedNorm(m.need) \in {<<>>, ALL, Star} THEN AliveProfiles(cat, t)
            ELSE LET alive == NeedAlive(cat, NeedJids(idx, NeedNorm(m.need)), t) IN
                 [i \in 1..Len(alive) |-> CatGet(cat, alive[i])] IN
    DfFrame("INFORM", "", JidsOf(profiles), profiles, m.conversation_id, m.reply_with)

\* mutant: a profile without jid is accepted
InvalidProfile_Never(m) == FALSE

\* REGISTER: "jid" not in profile
InvalidProfile(m) == ~m.has_jid

\* DFBehaviour.run after receive: <<catalog, cap2jids, frame sent>>
Handle(cat, idx, m, t) ==
    IF m.kind = "REGISTER" THEN
        IF InvalidProfile(m)
        THEN <<cat, idx, DfFrame("FAILURE", "INVALID_PROFILE", <<>>, <<>>,
                                 m.conversation_id, m.reply_with)>>
        ELSE <<UpsertProfile(cat, idx, m, t)[1], UpsertProfile(cat, idx, m, t)[2],
               DfFrame("AGREE", "registered", <<>>, <<>>, m.conversation_id, m.reply_with)>>
    ELSE IF m.kind = "HEARTBEAT" THEN
        IF m.has_jid THEN <<Touch(cat, m, t), idx, NoFrame>> ELSE <<cat, idx, NoFrame>>
    ELSE IF m.kind = "DEREGISTER" THEN
        IF m.has_jid
        THEN <<Remove(cat, idx, m.jid)[1], Remove(cat, idx, m.jid)[2],
               DfFrame("AGREE", "deregistered", <<>>, <<>>, m.conversation_id, m.reply_with)>>
        ELSE <<cat, idx, NoFrame>>
    ELSE IF m.kind = "QUERY-REF" THEN <<cat, idx, QueryFrame(cat, idx, m, t)>>
    ELSE <<cat, idx, NoFrame>>

\* frames sent to the DF
JidA == <<"a">>
JidB == <<"b">>
DfJids == {JidA, JidB}
CapLower == <<"x">>
CapUpper == <<"X">>
CapInputs == {{}, {CapLower}, {CapUpper}}
NeedInputs == {<<>>, <<"x">>, <<"y">>, <<"a", "l", "l">>, <<" ", "*">>}
DfCorrelations == {<<"c1", "r1">>, <<"c2", "r2">>}

\* JidA registers with every capability input and once with a name, a
\* status and no capabilities, sends plain heartbeats (with
\* and without a status) and heartbeats that carry capabilities; JidB
\* registers with one capability and sends plain heartbeats
DfMsgs ==
    {DfMsg("REGISTER", TRUE, JidA, TRUE, c, "ready", "", <<>>, "c1", "r1") : c \in CapInputs}
    \cup {DfMsg("REGISTER", TRUE, JidB, TRUE, {CapLower}, "", "", <<>>, "c1", "r1")}
    \cup {Named(DfMsg("REGISTER", TRUE, JidA, FALSE, {}, "busy", "", <<>>, "c1", "r1"), <<"n">>)}
    \cup {DfMsg("REGISTER", FALSE, <<>>, TRUE, {CapLower}, "", "", <<>>, k[1], k[2]) :
            k \in DfCorrelations}
    \cup {DfMsg("HEARTBEAT", TRUE, JidA, FALSE, {}, st, "", <<>>, "c1", "") :
            st \in {"", "ready"}}
    \cup {DfMsg("HEARTBEAT", TRUE, JidB, FALSE, {}, "", "", <<>>, "c1", "")}
    \cup {DfMsg("HEARTBEAT", TRUE, JidA, TRUE, c, "", "", <<>>, "c1", "") :
            c \in {{}, {CapLower}}}
    \cup {DfMsg("HEARTBEAT", FALSE, <<>>, FALSE, {}, "", "", <<>>, "c1", "")}
    \cup {DfMsg("DEREGISTER", TRUE, JidA, FALSE, {}, "", "", <<>>, k[1], k[2]) :
            k \in DfCorrelations}
    \cup {DfMsg("DEREGISTER", TRUE, JidB, FALSE, {}, "", "", <<>>, "c1", "r1")}
    \cup {DfMsg("DEREGISTER", FALSE, <<>>, FALSE, {}, "", "", <<>>, "c1", "r1")}
    \cup {DfMsg("QUERY-REF", FALSE, <<>>, FALSE, {}, "", q, <<>>, "c1", "r1") :
            q \in {"LIST", "DUMP"}}
    \cup {DfMsg("QUERY-REF", FALSE, <<>>, FALSE, {}, "", "", n, "c1", "r1") : n \in NeedInputs}
    \cup {DfMsg("OTHER", FALSE, <<>>, FALSE, {}, "", "", <<>>, "c1", "r1")}

\* run(): the periodic cleanup, then on to receive
DFTop ==
    /\ dfPc = "top"
    /\ IF dfNow - lastCleanup > CLEANUP_PERIOD
       THEN /\ catalog' = Gc(catalog, cap2jids, dfNow)[1]
            /\ cap2jids' = Gc(catalog, cap2jids, dfNow)[2]
            /\ lastCleanup' = dfNow
       ELSE UNCHANGED <<catalog, cap2jids, lastCleanup>>
    /\ dfPc' = "recv"
    /\ dfLast' = NoExchange
    /\ UNCHANGED dfNow
    /\ UNCHANGED exceptDF

\* run(): receive returned a frame, which is handled
DFReceive(m) ==
    /\ dfPc \in {"recv", "late"}
    /\ catalog' = Handle(catalog, cap2jids, m, dfNow)[1]
    /\ cap2jids' = Handle(catalog, cap2jids, m, dfNow)[2]
    /\ dfLast' = Exchange(m, Handle(catalog, cap2jids, m, dfNow)[3],
                           m.has_jid /\ InCatalog(catalog, m.jid))
    /\ dfPc' = "top"
    /\ UNCHANGED <<lastCleanup, dfNow>>
    /\ UNCHANGED exceptDF

\* run(): receive(timeout=1) returned nothing
DFTimeout ==
    /\ dfPc = "late"
    /\ dfPc' = "top"
    /\ dfLast' = NoExchange
    /\ UNCHANGED <<catalog, cap2jids, lastCleanup, dfNow>>
    /\ UNCHANGED exceptDF

\* time.time() advances by a second while run() waits in receive, which
\* waits for one second at most
DFTick ==
    /\ dfNow < MaxClock
    /\ dfPc = "recv"
    /\ dfNow' = dfNow + 1
    /\ dfPc' = "late"
    /\ dfLast' = NoExchange
    /\ UNCHANGED <<catalog, cap2jids, lastCleanup>>
    /\ UNCHANGED exceptDF

DFNext ==
    \/ DFTop
    \/ \E m \in DfMsgs : DFReceive(m)
    \/ DFTimeout
    \/ DFTick

\* after a restart of the DF: the Specialist a@... only keeps sending its
\* heartbeat (HeartbeatBehaviour: jid and status "ready"), clients ask LIST
\* and need = x, the capability it had registered
HeartbeatOfA == DfMsg("HEARTBEAT", TRUE, JidA, FALSE, {}, "ready", "", <<>>, "c1", "")
ListQuery == DfMsg("QUERY-REF", FALSE, <<>>, FALSE, {}, "", "LIST", <<>>, "c1", "r1")
NeedQuery == DfMsg("QUERY-REF", FALSE, <<>>, FALSE, {}, "", "", CapLower, "c1", "r1")

RestartNext ==
    \/ DFTop
    \/ DFReceive(HeartbeatOfA)
    \/ DFReceive(ListQuery)
    \/ DFReceive(NeedQuery)
    \/ DFTimeout
    \/ DFTick

\* setup(): empty catalog and index
InitDF ==
    /\ catalog = <<>>
    /\ cap2jids = <<>>
    /\ lastCleanup = 0 - (CLEANUP_PERIOD + 1)
    /\ dfNow = 0
    /\ dfPc = "top"
    /\ dfLast = NoExchange
    /\ coPc = "idle"
    /\ coSelf = NoTask
    /\ coCands = <<>>
    /\ coSel = NoSelection
    /\ coTry = <<>>
    /\ coHist = ""
    /\ coAttempts = 0
    /\ coOut = <<>>
    /\ coExc = FALSE
    /\ coGot = <<>>
    /\ coRaw = <<>>
    /\ dQueues = {}
    /\ dTasks = [c \in DispConvs |-> "none"]
    /\ dSem = MAX_CONCURRENCY
    /\ dWaiters = <<>>
    /\ dLast = NoDispatch
    /\ pTasks = [q \in Questions |-> "none"]
    /\ pLock = FALSE
    /\ pHasQueue = FALSE
    /\ pQueue = <<>>
    /\ pDeadline = 0
    /\ pOut = <<>>
    /\ pShown = <<>>
    /\ pLast = NoPresLast
    /\ aclIn = NoAclCall
    /\ aclOut = NoAclFrame
    /\ coDfEnd = ""
    /\ tlKb = NoTimeline
    /\ tlPc = "idle"
    /\ tlItem = 0
    /\ tlRead = NoRead
    /\ tlLast = NoStore
    /\ byConv = EmptyDict
    /\ now = 0
    /\ corrCall = NoCall
    /\ consumed = {}
    /\ scenario = "storage"
    /\ rows = {}
    /\ etagSeq = 0
    /\ pc = [h \in Handlers |-> "idle"]
    /\ req = [h \in Handlers |-> NoReq]
    /\ ver = [h \in Handlers |-> 0]
    /\ reply = [h \in Handlers |-> NoReply]
    /\ startMax = [h \in Handlers |-> 0]

(***************************************************************************)
(* Coordinator: ServeConversation (agent/coordinator.py)                   *)
(***************************************************************************)
NEED_CAP == "ASK_EXPERT"
MAX_RETRIES == 2
\* COORD_DF_MODE is unset: df_lookup sends one query, need = NEED_CAP
DF_MODE == "NEED"
\* the DF's jid
REGISTRY_JID == <<"d", "f">>

\* the texts run() replies with when it has no answer (the Polish letters
\* of the source are written here without their diacritics)
NoSpecialistsText == "Brak dostepnych specjalistow (ASK_EXPERT)."
NoProfilesText == "Brak poprawnych profili kandydatow."
NoAnswerText == "Specjalista nie odpowiedzial w czasie. Sprobuj ponownie."

\* a frame ServeConversation sends: body is the need of a QUERY-REF, the
\* question of an ASK_EXPERT, the text of a PRESENTER_REPLY
Sent(to, pf, type, conv, irt, body, history) ==
    [to |-> to, performative |-> pf, type |-> type, conversation_id |-> conv,
     in_reply_to |-> irt, body |-> body, history |-> history]

\* an item of the list the DF answered with: a jid, a profile, or something else
RawStr(jid) ==
    [form |-> "str", jid |-> jid, has_status |-> FALSE, status |-> <<>>, capabilities |-> {}]

RawDict(jid, has_status, status, caps) ==
    [form |-> "dict", jid |-> jid, has_status |-> has_status, status |-> status,
     capabilities |-> caps]

RawOther ==
    [form |-> "other", jid |-> <<>>, has_status |-> FALSE, status |-> <<>>, capabilities |-> {}]

\* a normalized candidate: the fields run() reads
Candidate(jid, status, caps) == [jid |-> jid, status |-> status, capabilities |-> caps]

Online == <<"o", "n", "l", "i", "n", "e">>
Available == <<"a", "v", "a", "i", "l", "a", "b", "l", "e">>
Ready == <<"r", "e", "a", "d", "y">>

RECURSIVE NormalizeCandidates(_)
\* _normalize_candidates: a str becomes an online profile with NEED_CAP, a
\* dict gets the defaults, anything else and every profile without a jid is left out
NormalizeCandidates(raw_list) ==
    IF Len(raw_list) = 0 THEN <<>>
    ELSE LET item == Head(raw_list)
             norm == IF item.form = "str"
                     THEN <<Candidate(item.jid, Online, {NEED_CAP})>>
                     ELSE IF item.form = "dict"
                     THEN <<Candidate(item.jid,
                                      IF item.has_status THEN item.status ELSE Online,
                                      item.capabilities)>>
                     ELSE <<>>
         IN  SelectSeq(norm, LAMBDA c : c.jid # <<>>) \o NormalizeCandidates(Tail(raw_list))

\* [c["jid"] for c in candidates]
JidList(candidates) == [i \in 1..Len(candidates) |-> candidates[i].jid]

\* {c["jid"] for c in candidates}
JidSet(candidates) == {candidates[i].jid : i \in 1..Len(candidates)}

\* _ai_select_candidate: the exception of achat_from_history is not caught
AiSelectRaises(res) == res.kind = "raise"

\* mutant: the Selector's jid is taken without the membership test
AiSelectCandidate_NoMembership(candidates, res) ==
    IF Len(candidates) = 0 THEN <<>>
    ELSE IF res.kind = "error" THEN <<>>
    ELSE IF res.kind = "not_json" THEN <<>>
    ELSE res.jid

\* _ai_select_candidate when it returns: the selected jid, <<>> for None
AiSelectCandidate(candidates, res) ==
    IF Len(candidates) = 0 THEN <<>>
    ELSE IF res.kind = "error" THEN <<>>
    ELSE IF res.kind = "not_json" THEN <<>>
    ELSE IF res.jid = <<>> THEN <<>>
    ELSE IF res.jid \notin JidSet(candidates) THEN <<>>
    ELSE res.jid

\* the choice without the sort: the first of the preferred candidates
Fallback_First(candidates) ==
    LET avail == SelectSeq(candidates,
                           LAMBDA c : Lower(c.status) \in {Online, Available, Ready})
        with_cap == SelectSeq(avail, LAMBDA c : NEED_CAP \in c.capabilities)
        prefer == IF Len(with_cap) > 0 THEN with_cap
                  ELSE IF Len(avail) > 0 THEN avail
                  ELSE candidates
    IN  prefer[1].jid

\* run(), the deterministic choice: sorted(jids of prefer)[0]
Fallback(candidates) ==
    LET avail == SelectSeq(candidates,
                           LAMBDA c : Lower(c.status) \in {Online, Available, Ready})
        with_cap == SelectSeq(avail, LAMBDA c : NEED_CAP \in c.capabilities)
        prefer == IF Len(with_cap) > 0 THEN with_cap
                  ELSE IF Len(avail) > 0 THEN avail
                  ELSE candidates
    IN  SortedList(JidSet(prefer))[1]

\* run(): selected_jid after the Selector and the fallback
SelectedJid(candidates, res) ==
    IF AiSelectCandidate(candidates, res) # <<>> THEN AiSelectCandidate(candidates, res)
    ELSE Fallback(candidates)

\* run(): ordered_try
OrderedTry(selected_jid, candidates) ==
    <<selected_jid>> \o SelectSeq(JidList(candidates), LAMBDA j : j # selected_jid)

\* _kb_get_timeline: the KB answered with the timeline, answered
\* FAILURE.NOT_FOUND, or did not answer within KB_TIMEOUT_S
KbOutcomes == {"value", "not_found", "silent"}

\* run(): tl2 if tl2 else history_after_user
HistorySource(kb) == IF kb = "value" THEN "timeline" ELSE "after_user"

\* reply_to_presenter
PresenterReply(task, text) ==
    Sent(task.presenter_jid, "INFORM", "PRESENTER_REPLY", task.conv_id, "", text, "")

\* USER_MSG frames: with and without conversation_id, with and without
\* content.meta.presenter_jid, from a bare and from a full jid
UserConvs == {"c1", ""}
UserMetas == {<<>>, <<"q">>}
UserSenders == {<<"p">>, <<"p", "/", "r">>}
UserReplyWith == "msg-1"

JidZ == <<"z">>
JidC == <<"c">>
Busy == <<"b", "u", "s", "y">>

\* what the DF answers with
RawLists ==
    { <<>>,
      <<RawStr(JidA)>>,
      <<RawStr(JidB), RawStr(JidA)>>,
      <<RawDict(<<>>, FALSE, <<>>, {}), RawOther>>,
      <<RawDict(JidB, TRUE, Upper(Ready), {NEED_CAP}), RawDict(JidA, TRUE, Busy, {NEED_CAP})>>,
      <<RawDict(JidB, FALSE, <<>>, {}), RawDict(JidA, TRUE, Available, {})>>,
      <<RawDict(JidB, TRUE, Busy, {NEED_CAP}), RawDict(JidA, TRUE, Busy, {})>>,
      <<RawStr(JidC), RawStr(JidA), RawStr(JidB)>> }

\* what the Selector call produces
Selections ==
    {Selection("raise", <<>>), Selection("error", <<>>), Selection("not_json", <<>>)}
    \cup {Selection("object", j) : j \in {<<>>, JidA, JidB, JidZ}}

\* result.answer of an INFORM.RESULT
Answers == {"pong", ""}

\* Dispatcher.run on a USER_MSG of a new conversation, then run() up to the
\* wait in df_lookup: the USER_MSG is journaled and the QUERY-REF is sent
CoSpawn(conv, meta, sender) ==
    /\ coPc = "idle"
    /\ LET conv_id == IF conv = "" THEN SessConv ELSE conv
           presenter_jid == IF meta # <<>> THEN meta ELSE BeforeSlash(sender)
       IN  /\ coSelf' = Task(conv_id, presenter_jid, "ping", conv, UserReplyWith, meta, sender)
           /\ coOut' = <<Sent(REGISTRY_JID, "QUERY-REF", "", conv_id, "", NEED_CAP, "")>>
    /\ coPc' = "df"
    /\ UNCHANGED <<coCands, coSel, coTry, coHist, coAttempts, coExc, coGot, coRaw, coDfEnd>>
    /\ UNCHANGED exceptCo

\* run() without the test of raw_candidates
CoAfterLookup_NoEmptyTest(got) ==
    IF Len(NormalizeCandidates(got)) = 0
    THEN /\ coOut' = Append(coOut, PresenterReply(coSelf, NoProfilesText))
         /\ coPc' = "grace"
         /\ UNCHANGED coCands
    ELSE /\ coCands' = NormalizeCandidates(got)
         /\ coPc' = "select"
         /\ UNCHANGED coOut

\* run() after df_lookup returned got
CoAfterLookup(got) ==
    IF Len(got) = 0
    THEN /\ coOut' = Append(coOut, PresenterReply(coSelf, NoSpecialistsText))
         /\ coPc' = "grace"
         /\ UNCHANGED coCands
    ELSE IF Len(NormalizeCandidates(got)) = 0
    THEN /\ coOut' = Append(coOut, PresenterReply(coSelf, NoProfilesText))
         /\ coPc' = "grace"
         /\ UNCHANGED coCands
    ELSE /\ coCands' = NormalizeCandidates(got)
         /\ coPc' = "select"
         /\ UNCHANGED coOut

\* df_lookup: the DF's INFORM arrived
CoDfInform(raw) ==
    /\ coPc = "df"
    /\ coRaw' = raw
    /\ coDfEnd' = "lists"
    /\ CoAfterLookup(raw)
    /\ UNCHANGED <<coSelf, coSel, coTry, coHist, coAttempts, coExc, coGot>>
    /\ UNCHANGED exceptCo

\* df_lookup: no INFORM within REQ_TIMEOUT_S
CoDfTimeout ==
    /\ coPc = "df"
    /\ coRaw' = <<>>
    /\ coDfEnd' = "timeout"
    /\ CoAfterLookup(<<>>)
    /\ UNCHANGED <<coSelf, coSel, coTry, coHist, coAttempts, coExc, coGot>>
    /\ UNCHANGED exceptCo

\* df_lookup: an INFORM of the conversation that has neither profiles nor
\* candidates (an INFORM.RESULT, say) is taken from the queue
CoDfOtherInform ==
    /\ coPc = "df"
    /\ coRaw' = <<>>
    /\ coDfEnd' = "inform"
    /\ CoAfterLookup(<<>>)
    /\ UNCHANGED <<coSelf, coSel, coTry, coHist, coAttempts, coExc, coGot>>
    /\ UNCHANGED exceptCo

\* df_lookup: a frame of the conversation that is no INFORM (AGREE, REFUSE,
\* FAILURE) is taken from the queue
CoDfSkip ==
    /\ coPc = "df"
    /\ coDfEnd' = "skipped"
    /\ UNCHANGED <<coPc, coSelf, coCands, coSel, coTry, coHist, coAttempts, coOut, coExc, coGot,
                   coRaw>>
    /\ UNCHANGED exceptCo

\* run() from the Selector call to the retry loop; an exception of the
\* call leaves the try block for finally
CoSelect(res, kb) ==
    /\ coPc = "select"
    /\ coSel' = res
    /\ IF AiSelectRaises(res)
       THEN /\ coExc' = TRUE
            /\ coPc' = "grace"
            /\ UNCHANGED <<coTry, coHist>>
       ELSE /\ coTry' = OrderedTry(SelectedJid(coCands, res), coCands)
            /\ coHist' = HistorySource(kb)
            /\ coPc' = "ask"
            /\ UNCHANGED coExc
    /\ UNCHANGED <<coSelf, coCands, coAttempts, coOut, coGot, coRaw, coDfEnd>>
    /\ UNCHANGED exceptCo

\* the retry loop: the next attempt, ask_specialist sends REQUEST.ASK_EXPERT
CoAsk ==
    /\ coPc = "ask"
    /\ coAttempts' = coAttempts + 1
    /\ coOut' = Append(coOut, Sent(coTry[coAttempts + 1], "REQUEST", "ASK_EXPERT",
                                   coSelf.conv_id, "", coSelf.question, coHist))
    /\ coPc' = "wait"
    /\ UNCHANGED <<coSelf, coCands, coSel, coTry, coHist, coExc, coGot, coRaw, coDfEnd>>
    /\ UNCHANGED exceptCo

\* the retry loop without the limit on attempts
CoAfterAsk_NoLimit(answer) ==
    IF answer # ""
    THEN /\ coOut' = Append(coOut, PresenterReply(coSelf, answer))
         /\ coPc' = "grace"
    ELSE IF coAttempts = Len(coTry)
    THEN /\ coOut' = Append(coOut, PresenterReply(coSelf, NoAnswerText))
         /\ coPc' = "grace"
    ELSE /\ coPc' = "ask"
         /\ UNCHANGED coOut

\* the retry loop after ask_specialist returned answer ("" for None)
CoAfterAsk(answer) ==
    IF answer # ""
    THEN /\ coOut' = Append(coOut, PresenterReply(coSelf, answer))
         /\ coPc' = "grace"
    ELSE IF coAttempts >= MAX_RETRIES \/ coAttempts = Len(coTry)
    THEN /\ coOut' = Append(coOut, PresenterReply(coSelf, NoAnswerText))
         /\ coPc' = "grace"
    ELSE /\ coPc' = "ask"
         /\ UNCHANGED coOut

\* ask_specialist: an INFORM.RESULT with the conversation_id is taken from
\* the queue, the answer to this attempt's request or to an earlier one;
\* neither in_reply_to nor the sender is looked at. A specialist sends one
\* INFORM.RESULT per request
CoResult(k, answer) ==
    /\ coPc = "wait"
    /\ k \in 1..coAttempts
    /\ \A i \in 1..Len(coGot) : coGot[i].attempt # k
    /\ coGot' = Append(coGot, Result(k, coAttempts, coTry[k], answer))
    /\ CoAfterAsk(answer)
    /\ UNCHANGED <<coSelf, coCands, coSel, coTry, coHist, coAttempts, coExc, coRaw, coDfEnd>>
    /\ UNCHANGED exceptCo

\* ask_specialist: no INFORM.RESULT within REQ_TIMEOUT_S
CoTimeout ==
    /\ coPc = "wait"
    /\ CoAfterAsk("")
    /\ UNCHANGED <<coSelf, coCands, coSel, coTry, coHist, coAttempts, coExc, coGot, coRaw, coDfEnd>>
    /\ UNCHANGED exceptCo

\* run(), finally: after the grace sleep the conversation's queue is dropped
CoCleanup ==
    /\ coPc = "grace"
    /\ coPc' = "done"
    /\ UNCHANGED <<coSelf, coCands, coSel, coTry, coHist, coAttempts, coOut, coExc, coGot, coRaw, coDfEnd>>
    /\ UNCHANGED exceptCo

CoordNext ==
    \/ \E conv \in UserConvs, meta \in UserMetas, sender \in UserSenders :
           CoSpawn(conv, meta, sender)
    \/ \E raw \in RawLists : CoDfInform(raw)
    \/ CoDfTimeout
    \/ CoDfOtherInform
    \/ CoDfSkip
    \/ \E res \in Selections, kb \in KbOutcomes : CoSelect(res, kb)
    \/ CoAsk
    \/ \E k \in 1..MAX_RETRIES, answer \in Answers : CoResult(k, answer)
    \/ CoTimeout
    \/ CoCleanup

\* the Coordinator has started and serves no conversation
InitCoord ==
    /\ coPc = "idle"
    /\ coSelf = NoTask
    /\ coCands = <<>>
    /\ coSel = NoSelection
    /\ coTry = <<>>
    /\ coHist = ""
    /\ coAttempts = 0
    /\ coOut = <<>>
    /\ coExc = FALSE
    /\ coGot = <<>>
    /\ coRaw = <<>>
    /\ dQueues = {}
    /\ dTasks = [c \in DispConvs |-> "none"]
    /\ dSem = MAX_CONCURRENCY
    /\ dWaiters = <<>>
    /\ dLast = NoDispatch
    /\ pTasks = [q \in Questions |-> "none"]
    /\ pLock = FALSE
    /\ pHasQueue = FALSE
    /\ pQueue = <<>>
    /\ pDeadline = 0
    /\ pOut = <<>>
    /\ pShown = <<>>
    /\ pLast = NoPresLast
    /\ aclIn = NoAclCall
    /\ aclOut = NoAclFrame
    /\ coDfEnd = ""
    /\ tlKb = NoTimeline
    /\ tlPc = "idle"
    /\ tlItem = 0
    /\ tlRead = NoRead
    /\ tlLast = NoStore
    /\ catalog = <<>>
    /\ cap2jids = <<>>
    /\ lastCleanup = 0 - (CLEANUP_PERIOD + 1)
    /\ dfNow = 0
    /\ dfPc = "top"
    /\ dfLast = NoExchange
    /\ byConv = EmptyDict
    /\ now = 0
    /\ corrCall = NoCall
    /\ consumed = {}
    /\ scenario = "storage"
    /\ rows = {}
    /\ etagSeq = 0
    /\ pc = [h \in Handlers |-> "idle"]
    /\ req = [h \in Handlers |-> NoReq]
    /\ ver = [h \in Handlers |-> 0]
    /\ reply = [h \in Handlers |-> NoReply]
    /\ startMax = [h \in Handlers |-> 0]

(***************************************************************************)
(* Coordinator: Dispatcher and the semaphore (agent/coordinator.py)        *)
(***************************************************************************)
\* the conversation_id of the frames that arrive ("" for none)
FrameConvs == (DispConvs \ {SessConv}) \cup {""}

\* Dispatcher.run on a REQUEST.USER_MSG: a frame without conversation_id
\* gets sess-<now_ms>; a conversation without a queue gets a queue and a
\* ServeConversation, otherwise the frame is left at that
DUserMsg(conv) ==
    /\ conv = "" => SessConv \notin dQueues
    /\ LET conv_id == IF conv = "" THEN SessConv ELSE conv IN
       IF conv_id \notin dQueues
       THEN /\ dQueues' = dQueues \cup {conv_id}
            /\ dTasks' = [dTasks EXCEPT ![conv_id] = "new"]
            /\ dLast' = Dispatch("USER_MSG", conv, "spawned")
       ELSE /\ dLast' = Dispatch("USER_MSG", conv, "discarded")
            /\ UNCHANGED <<dQueues, dTasks>>
    /\ UNCHANGED <<dSem, dWaiters>>
    /\ UNCHANGED exceptD

\* Dispatcher.run on any other frame: to the conversation's queue if there is one
DOther(conv) ==
    /\ dLast' = Dispatch("other", conv,
                         IF conv # "" /\ conv \in dQueues THEN "queued" ELSE "dropped")
    /\ UNCHANGED <<dQueues, dTasks, dSem, dWaiters>>
    /\ UNCHANGED exceptD

\* asyncio.Semaphore.acquire without the test of the free permits
Acquire_NoLimit(c) ==
    /\ dSem' = dSem - 1
    /\ dTasks' = [dTasks EXCEPT ![c] = "running"]
    /\ UNCHANGED dWaiters

\* asyncio.Semaphore.acquire: a permit at once if one is free and nobody
\* waits, else the task joins the waiters
Acquire(c) ==
    IF dSem > 0 /\ Len(dWaiters) = 0
    THEN /\ dSem' = dSem - 1
         /\ dTasks' = [dTasks EXCEPT ![c] = "running"]
         /\ UNCHANGED dWaiters
    ELSE /\ dWaiters' = Append(dWaiters, c)
         /\ dTasks' = [dTasks EXCEPT ![c] = "waiting"]
         /\ UNCHANGED dSem

\* ServeConversation.run starts: async with self.agent.sem
DStart(c) ==
    /\ dTasks[c] = "new"
    /\ Acquire(c)
    /\ dLast' = NoDispatch
    /\ UNCHANGED dQueues
    /\ UNCHANGED exceptD

\* ServeConversation.run: the try block ends, by a reply, a return or an
\* exception, and finally begins its grace sleep
DPipelineEnd(c) ==
    /\ dTasks[c] = "running"
    /\ dTasks' = [dTasks EXCEPT ![c] = "grace"]
    /\ dLast' = NoDispatch
    /\ UNCHANGED <<dQueues, dSem, dWaiters>>
    /\ UNCHANGED exceptD

\* mutant: finally leaves the conversation's queue in conv_queues
DCleanupTo_KeepQueue(c, ended) ==
    /\ dTasks[c] = "grace"
    /\ UNCHANGED dQueues
    /\ IF Len(dWaiters) > 0
       THEN /\ dTasks' = [dTasks EXCEPT ![c] = ended, ![Head(dWaiters)] = "running"]
            /\ dWaiters' = Tail(dWaiters)
            /\ UNCHANGED dSem
       ELSE /\ dTasks' = [dTasks EXCEPT ![c] = ended]
            /\ dSem' = dSem + 1
            /\ UNCHANGED dWaiters
    /\ dLast' = NoDispatch
    /\ UNCHANGED exceptD

\* ServeConversation.run: finally pops the queue and the semaphore is
\* released; release hands the permit to the first waiter. ended is the
\* mark the finished behaviour leaves in dTasks
DCleanupTo(c, ended) ==
    /\ dTasks[c] = "grace"
    /\ dQueues' = dQueues \ {c}
    /\ IF Len(dWaiters) > 0
       THEN /\ dTasks' = [dTasks EXCEPT ![c] = ended, ![Head(dWaiters)] = "running"]
            /\ dWaiters' = Tail(dWaiters)
            /\ UNCHANGED dSem
       ELSE /\ dTasks' = [dTasks EXCEPT ![c] = ended]
            /\ dSem' = dSem + 1
            /\ UNCHANGED dWaiters
    /\ dLast' = NoDispatch
    /\ UNCHANGED exceptD

DCleanup(c) == DCleanupTo(c, "none")

\* the conversation_id of _kb_get_timeline's temporary queue; the
\* millisecond suffix is left out, a conversation has one GET open at a time
KbGetConv(c) == c \o "-kbget-"

\* _kb_get_timeline: the temporary queue is put into conv_queues and the GET
\* is sent
DKbGet(c) ==
    /\ dTasks[c] = "running"
    /\ KbGetConv(c) \notin dQueues
    /\ dQueues' = dQueues \cup {KbGetConv(c)}
    /\ dLast' = NoDispatch
    /\ UNCHANGED <<dTasks, dSem, dWaiters>>
    /\ UNCHANGED exceptD

\* _kb_get_timeline ends, by VALUE, FAILURE.NOT_FOUND, the timeout or an
\* exception: finally pops the temporary queue
DKbGetEnd(c) ==
    /\ dTasks[c] = "running"
    /\ KbGetConv(c) \in dQueues
    /\ dQueues' = dQueues \ {KbGetConv(c)}
    /\ dLast' = NoDispatch
    /\ UNCHANGED <<dTasks, dSem, dWaiters>>
    /\ UNCHANGED exceptD

\* Dispatcher.run on a frame whose conversation_id carries a KB tag: to that
\* queue if it exists, and nothing else happens
DKbFrame(c) ==
    /\ dLast' = Dispatch("kb", KbGetConv(c),
                         IF KbGetConv(c) \in dQueues THEN "queued" ELSE "dropped")
    /\ UNCHANGED <<dQueues, dTasks, dSem, dWaiters>>
    /\ UNCHANGED exceptD

\* the try block of ServeConversation.run ends only between its awaits: no
\* _kb_get_timeline is open
DServeEnd(c) ==
    /\ KbGetConv(c) \notin dQueues
    /\ DPipelineEnd(c)

\* the conversations of the queue bookkeeping
QueueConvs == {"c1", "c2"}

\* Dispatcher and ServeConversations with their temporary KB queues
QueuesNext ==
    \/ \E conv \in QueueConvs \cup {""} : DUserMsg(conv)
    \/ \E conv \in QueueConvs \cup {""} : DOther(conv)
    \/ \E c \in QueueConvs : DKbFrame(c)
    \/ \E c \in DispConvs : DStart(c)
    \/ \E c \in DispConvs : DKbGet(c)
    \/ \E c \in DispConvs : DKbGetEnd(c)
    \/ \E c \in DispConvs : DServeEnd(c)
    \/ \E c \in DispConvs : DCleanupTo(c, "done")

\* the frames that arrive: a USER_MSG for every conversation id that has no
\* queue, and for c1 also when it has one; other frames for c1 and without
\* conversation_id
DispNext ==
    \/ \E conv \in FrameConvs : (conv \in dQueues => conv = "c1") /\ DUserMsg(conv)
    \/ \E conv \in {"c1", ""} : DOther(conv)
    \/ \E c \in DispConvs : DStart(c)
    \/ \E c \in DispConvs : DPipelineEnd(c)
    \/ \E c \in DispConvs : DCleanup(c)

\* CoordinatorAgent.__init__: no queue, all permits free
InitDisp ==
    /\ dQueues = {}
    /\ dTasks = [c \in DispConvs |-> "none"]
    /\ dSem = MAX_CONCURRENCY
    /\ dWaiters = <<>>
    /\ dLast = NoDispatch
    /\ pTasks = [q \in Questions |-> "none"]
    /\ pLock = FALSE
    /\ pHasQueue = FALSE
    /\ pQueue = <<>>
    /\ pDeadline = 0
    /\ pOut = <<>>
    /\ pShown = <<>>
    /\ pLast = NoPresLast
    /\ aclIn = NoAclCall
    /\ aclOut = NoAclFrame
    /\ coDfEnd = ""
    /\ tlKb = NoTimeline
    /\ tlPc = "idle"
    /\ tlItem = 0
    /\ tlRead = NoRead
    /\ tlLast = NoStore
    /\ coPc = "idle"
    /\ coSelf = NoTask
    /\ coCands = <<>>
    /\ coSel = NoSelection
    /\ coTry = <<>>
    /\ coHist = ""
    /\ coAttempts = 0
    /\ coOut = <<>>
    /\ coExc = FALSE
    /\ coGot = <<>>
    /\ coRaw = <<>>
    /\ catalog = <<>>
    /\ cap2jids = <<>>
    /\ lastCleanup = 0 - (CLEANUP_PERIOD + 1)
    /\ dfNow = 0
    /\ dfPc = "top"
    /\ dfLast = NoExchange
    /\ byConv = EmptyDict
    /\ now = 0
    /\ corrCall = NoCall
    /\ consumed = {}
    /\ scenario = "storage"
    /\ rows = {}
    /\ etagSeq = 0
    /\ pc = [h \in Handlers |-> "idle"]
    /\ req = [h \in Handlers |-> NoReq]
    /\ ver = [h \in Handlers |-> 0]
    /\ reply = [h \in Handlers |-> NoReply]
    /\ startMax = [h \in Handlers |-> 0]

(***************************************************************************)
(* Presenter (agent/presenter.py)                                          *)
(***************************************************************************)
\* COORDINATOR_JID
COORD_JID == <<"k","@","d">>
\* PRESENTER_TIMEOUT as the environment sets it (the default is 15)
REQ_TIMEOUT_S == 1
\* bound: the frames the session's queue holds at most
MaxQueue == 2

FAILURE == <<"F","A","I","L","U","R","E">>
NOT_UNDERSTOOD == <<"N","O","T","-","U","N","D","E","R","S","T","O","O","D">>

\* PresenterAgent.session_id, fixed in setup()
SessionId == "c1"

\* new_reply_id("msg"): a fresh id for every USER_MSG
RidOf(q) == IF q = 1 THEN "r1" ELSE "r2"

\* send_user_msg: the REQUEST.USER_MSG frame
UserMsg(q) == [conversation_id |-> SessionId, reply_with |-> RidOf(q), question |-> q]

\* the senders of the frames the Presenter receives: the Coordinator, the
\* Coordinator with a resource, another agent
CoordFull == <<"k","@","d","/","r">>
Stranger == <<"z","@","d">>

\* the frames the Presenter receives
PresFrames ==
    { PFrame(CoordFull, INFORM, "PRESENTER_REPLY", SessionId, "r1", "hi"),
      PFrame(COORD_JID, INFORM, "PRESENTER_REPLY", SessionId, "r2", "hi"),
      PFrame(COORD_JID, INFORM, "PRESENTER_REPLY", SessionId, NoRid, "hi"),
      PFrame(Stranger, INFORM, "PRESENTER_REPLY", SessionId, NoRid, "spoof"),
      PFrame(Stranger, INFORM, "PRESENTER_REPLY", SessionId, "r1", "spoof"),
      PFrame(COORD_JID, REFUSE, "ERROR", SessionId, "r1", ""),
      PFrame(COORD_JID, AGREE, "ACK", SessionId, "r1", ""),
      PFrame(COORD_JID, INFORM, "PRESENTER_REPLY", SessionId, "r9", "hi"),
      PFrame(COORD_JID, INFORM, "PRESENTER_REPLY", "c2", NoRid, "hi"),
      PFrame(COORD_JID, INFORM, "PRESENTER_REPLY", "", NoRid, "hi") }

\* allow_if_correlated(corr, acl, from_bare=): <<return value, book after>>
AllowIfCorrelated(book, t, f, from_bare) ==
    MatchAndPopResult(book, t, f.conversation_id, f.in_reply_to, from_bare, Upper(f.performative))

\* repl_loop: add_behaviour(ServeConversation(question, session_id))
PSubmit(q) ==
    /\ pTasks[q] = "none"
    /\ \A j \in Questions : j < q => pTasks[j] # "none"
    /\ pTasks' = [pTasks EXCEPT ![q] = "new"]
    /\ pLast' = NoPresLast
    /\ UNCHANGED <<pLock, pHasQueue, pQueue, pDeadline, pOut, pShown, byConv, now>>
    /\ UNCHANGED exceptP

\* mutant: the session lock never blocks
LockFree_Always == TRUE

\* asyncio.Lock.acquire() returns when the lock is not held
LockFree == ~pLock

\* ServeConversation.run up to the first q.get() of wait_for_reply: the
\* lock is taken (tasks get it in the order they asked), the queue is
\* created if absent, send_user_msg registers the expectation and sends
PStart(q) ==
    /\ pTasks[q] = "new"
    /\ \A j \in Questions : j < q => pTasks[j] # "new"
    /\ LockFree
    /\ pLock' = TRUE
    /\ pHasQueue' = TRUE
    /\ byConv' = RegisterIn(byConv, SessionId, RidOf(q),
                            Expectation({BeforeSlash(COORD_JID)},
                                        {INFORM, REFUSE, FAILURE, NOT_UNDERSTOOD},
                                        REQ_TIMEOUT_S + 2, now))
    /\ pOut' = Append(pOut, UserMsg(q))
    /\ pDeadline' = now + REQ_TIMEOUT_S
    /\ pTasks' = [pTasks EXCEPT ![q] = "wait"]
    /\ pLast' = NoPresLast
    /\ UNCHANGED <<pQueue, pShown, now>>
    /\ UNCHANGED exceptP

\* Dispatcher.run on a received frame
PDispatch(f) ==
    LET from_bare == BeforeSlash(f.from)
        res == AllowIfCorrelated(byConv, now, f, from_bare)
        expected == <<f.conversation_id, f.in_reply_to>> \in Entries(byConv) IN
    /\ pHasQueue => Len(pQueue) < MaxQueue
    /\ IF f.conversation_id = ""
       THEN /\ pLast' = PresLast(f, "no_conv", FALSE)
            /\ UNCHANGED <<byConv, pQueue>>
       ELSE IF ~res[1]
       THEN /\ pLast' = PresLast(f, "dropped", expected)
            /\ byConv' = res[2]
            /\ UNCHANGED pQueue
       ELSE IF pHasQueue /\ f.conversation_id = SessionId
       THEN /\ pLast' = PresLast(f, "queued", expected)
            /\ byConv' = res[2]
            /\ pQueue' = Append(pQueue, f)
       ELSE /\ pLast' = PresLast(f, "no_queue", expected)
            /\ byConv' = res[2]
            /\ UNCHANGED pQueue
    /\ UNCHANGED <<pTasks, pLock, pHasQueue, pDeadline, pOut, pShown, now>>
    /\ UNCHANGED exceptP

\* wait_for_reply: q.get() returns a frame before the deadline
PTake(q) ==
    /\ pTasks[q] = "wait"
    /\ Len(pQueue) > 0
    /\ now < pDeadline
    /\ LET f == Head(pQueue) IN
       IF /\ f.conversation_id = SessionId
          /\ f.performative = INFORM
          /\ f.type = "PRESENTER_REPLY"
       THEN /\ pShown' = Append(pShown, [question |-> q, frame |-> f])
            /\ pTasks' = [pTasks EXCEPT ![q] = "grace"]
       ELSE UNCHANGED <<pShown, pTasks>>
    /\ pQueue' = Tail(pQueue)
    /\ pLast' = NoPresLast
    /\ UNCHANGED <<pLock, pHasQueue, pDeadline, pOut, byConv, now>>
    /\ UNCHANGED exceptP

\* wait_for_reply: the deadline passed, it returns None
PTimeout(q) ==
    /\ pTasks[q] = "wait"
    /\ ~(now < pDeadline)
    /\ pTasks' = [pTasks EXCEPT ![q] = "grace"]
    /\ pLast' = NoPresLast
    /\ UNCHANGED <<pLock, pHasQueue, pQueue, pDeadline, pOut, pShown, byConv, now>>
    /\ UNCHANGED exceptP

\* run(): the finally block after the grace sleep, and the lock's release
PCleanup(q) ==
    /\ pTasks[q] = "grace"
    /\ pHasQueue' = FALSE
    /\ pQueue' = <<>>
    /\ pLock' = FALSE
    /\ pTasks' = [pTasks EXCEPT ![q] = "done"]
    /\ pLast' = NoPresLast
    /\ UNCHANGED <<pDeadline, pOut, pShown, byConv, now>>
    /\ UNCHANGED exceptP

PresNext ==
    \/ \E q \in Questions : PSubmit(q)
    \/ \E q \in Questions : PStart(q)
    \/ \E f \in PresFrames : PDispatch(f)
    \/ \E q \in Questions : PTake(q)
    \/ \E q \in Questions : PTimeout(q)
    \/ \E q \in Questions : PCleanup(q)
    \/ Tick

(***************************************************************************)
(* ACL frames (protocol/acl_messages.py)                                   *)
(***************************************************************************)
ACCEPT_PROPOSAL == <<"A","C","C","E","P","T","-","P","R","O","P","O","S","A","L">>
CANCEL == <<"C","A","N","C","E","L">>
CFP == <<"C","F","P">>
CONFIRM == <<"C","O","N","F","I","R","M">>
DISCONFIRM == <<"D","I","S","C","O","N","F","I","R","M">>
INFORM_IF == <<"I","N","F","O","R","M","-","I","F">>
INFORM_REF == <<"I","N","F","O","R","M","-","R","E","F">>
PROPOSE == <<"P","R","O","P","O","S","E">>
QUERY_IF == <<"Q","U","E","R","Y","-","I","F">>
QUERY_REF == <<"Q","U","E","R","Y","-","R","E","F">>
REJECT_PROPOSAL == <<"R","E","J","E","C","T","-","P","R","O","P","O","S","A","L">>
REQUEST == <<"R","E","Q","U","E","S","T">>
REQUEST_WHEN == <<"R","E","Q","U","E","S","T","-","W","H","E","N">>
REQUEST_WHENEVER == <<"R","E","Q","U","E","S","T","-","W","H","E","N","E","V","E","R">>
SUBSCRIBE == <<"S","U","B","S","C","R","I","B","E">>

VALID_PERFORMATIVES ==
    { ACCEPT_PROPOSAL, AGREE, CANCEL, CFP,
      CONFIRM, DISCONFIRM, FAILURE, INFORM,
      INFORM_IF, INFORM_REF, NOT_UNDERSTOOD, PROPOSE,
      QUERY_IF, QUERY_REF, REFUSE, REJECT_PROPOSAL,
      REQUEST, REQUEST_WHEN, REQUEST_WHENEVER, SUBSCRIBE }

FIPA_QUERY == <<"f","i","p","a","-","q","u","e","r","y">>
FIPA_SUBSCRIBE == <<"f","i","p","a","-","s","u","b","s","c","r","i","b","e">>
FIPA_CONTRACT_NET == <<"f","i","p","a","-","c","o","n","t","r","a","c","t","-","n","e","t">>
FIPA_REQUEST == <<"f","i","p","a","-","r","e","q","u","e","s","t">>
\* a protocol the caller names itself
FIPA_CUSTOM == <<"x","-","o","w","n">>

\* str.startswith
StartsWith(t, prefix) == Len(t) >= Len(prefix) /\ SubSeq(t, 1, Len(prefix)) = prefix

RECURSIVE Replace(_, _, _)
\* str.replace(old, new): every occurrence, left to right, not overlapping
Replace(t, old, new) ==
    IF Len(t) < Len(old) THEN t
    ELSE IF StartsWith(t, old) THEN new \o Replace(SubSeq(t, Len(old) + 1, Len(t)), old, new)
    ELSE <<t[1]>> \o Replace(Tail(t), old, new)

RECURSIVE SubRuns(_, _, _)
\* re.sub: every run of at least `least` characters of `chars` becomes "-"
SubRuns(t, chars, least) ==
    IF Len(t) = 0 THEN t
    ELSE IF t[1] \notin chars THEN <<t[1]>> \o SubRuns(Tail(t), chars, least)
    ELSE LET n == CHOOSE k \in 1..Len(t) :
                      /\ \A i \in 1..k : t[i] \in chars
                      /\ k < Len(t) => t[k + 1] \notin chars IN
         (IF n >= least THEN <<"-">> ELSE SubSeq(t, 1, n))
             \o SubRuns(SubSeq(t, n + 1, Len(t)), chars, least)

\* normalize_performative: the chain of .replace calls, in order
Replacements ==
    << <<<<"A","C","C","E","P","T","P","R","O","P","O","S","A","L">>, ACCEPT_PROPOSAL>>,
       <<<<"R","E","J","E","C","T","P","R","O","P","O","S","A","L">>, REJECT_PROPOSAL>>,
       <<<<"I","N","F","O","R","M","I","F">>, INFORM_IF>>,
       <<<<"I","N","F","O","R","M","R","E","F">>, INFORM_REF>>,
       <<<<"Q","U","E","R","Y","I","F">>, QUERY_IF>>,
       <<<<"Q","U","E","R","Y","R","E","F">>, QUERY_REF>>,
       <<<<"R","E","Q","U","E","S","T","W","H","E","N">>, REQUEST_WHEN>>,
       <<<<"R","E","Q","U","E","S","T","W","H","E","N","E","V","E","R">>, REQUEST_WHENEVER>> >>

RECURSIVE ReplaceAll(_, _)
ReplaceAll(t, k) ==
    IF k > Len(Replacements) THEN t
    ELSE ReplaceAll(Replace(t, Replacements[k][1], Replacements[k][2]), k + 1)

\* mutant: normalize_performative folds to lower case
NormalizePerformative_Lower(pf) == Lower(pf)

\* normalize_performative(pf); <<>> is None or ""
NormalizePerformative(pf) ==
    IF Len(pf) = 0 THEN <<>>
    ELSE SubRuns(ReplaceAll(Upper(SubRuns(Strip(pf), {" ", "_"}, 1)), 1), {"-"}, 2)

\* default_protocol_for(pf)
DefaultProtocolFor(pf) ==
    IF StartsWith(pf, <<"Q","U","E","R","Y","-">>) THEN FIPA_QUERY
    ELSE IF pf = SUBSCRIBE THEN FIPA_SUBSCRIBE
    ELSE IF pf \in {CFP, PROPOSE, ACCEPT_PROPOSAL, REJECT_PROPOSAL} THEN FIPA_CONTRACT_NET
    ELSE FIPA_REQUEST

\* AclMessage._ensure_protocol: `if not (self.protocol or "").strip()`
EnsureProtocol(performative, protocol) ==
    IF Len(Strip(protocol)) = 0 THEN DefaultProtocolFor(performative) ELSE protocol

\* AclMessage(performative=, protocol=, ...): _norm_pf on the performative,
\* the field default when protocol is not given, str validation (None is
\* not a str), then _ensure_protocol
AclMessageNew(performative, pkind, protocol) ==
    LET pf == NormalizePerformative(performative) IN
    IF pf \notin VALID_PERFORMATIVES THEN NoAclFrame
    ELSE IF pkind = "null" THEN NoAclFrame
    ELSE AclFrame(TRUE, pf, EnsureProtocol(pf, IF pkind = "absent" THEN FIPA_REQUEST ELSE protocol))

\* make_acl(performative, ..., protocol=): `protocol or default_protocol_for(pf_norm)`
MakeAclResult(performative, pkind, protocol) ==
    LET pf_norm == NormalizePerformative(performative) IN
    AclMessageNew(pf_norm, "str",
                  IF pkind # "str" \/ Len(protocol) = 0
                  THEN DefaultProtocolFor(pf_norm) ELSE protocol)

\* AclMessage.loads(body): AclMessage(**json.loads(body)) for a body that
\* has sender, receiver and content
LoadsResult(performative, pkind, protocol) == AclMessageNew(performative, pkind, protocol)

\* every text of one to three characters over blank, underscore, dash and a letter
ShortTexts ==
    LET chars == {" ", "_", "-", "q"} IN
    {<<a>> : a \in chars} \cup {<<a, b>> : a \in chars, b \in chars}
        \cup {<<a, b, c>> : a \in chars, b \in chars, c \in chars}

\* the performatives as callers and peers write them
RawPerformatives ==
    VALID_PERFORMATIVES \cup
    { Lower(QUERY_REF), <<"q","u","e","r","y","_","r","e","f">>, <<"Q","U","E","R","Y","R","E","F">>,
      <<" ","i","n","f","o","r","m"," ">>, <<"H","E","L","L","O">>, <<>>,
      <<"r","e","q","u","e","s","t">>, <<"R","e","q","u","e","s","t","_","W","h","e","n">>,
      <<"a","c","c","e","p","t","p","r","o","p","o","s","a","l">>,
      <<"r","e","q","u","e","s","t","w","h","e","n","e","v","e","r">>,
      <<"i","n","f","o","r","m","_"," ","_","i","f">>, <<"Q","U","E","R","Y","-","-","I","F">> }
    \cup ShortTexts


\* the protocol argument / key: not given, None, "", blank, named
ProtocolInputs ==
    { <<"absent", <<>>>>, <<"null", <<>>>>, <<"str", <<>>>>, <<"str", <<" ">>>>,
      <<"str", FIPA_CUSTOM>> }

MakeAcl(performative, pkind, protocol) ==
    /\ aclIn = NoAclCall
    /\ aclIn' = AclCall("make_acl", performative, pkind, protocol)
    /\ aclOut' = MakeAclResult(performative, pkind, protocol)
    /\ UNCHANGED exceptAcl

Loads(performative, pkind, protocol) ==
    /\ aclIn = NoAclCall
    /\ aclIn' = AclCall("loads", performative, pkind, protocol)
    /\ aclOut' = LoadsResult(performative, pkind, protocol)
    /\ UNCHANGED exceptAcl

\* AclMessage.loads(make_acl(performative, ..., protocol=)): dumps() writes
\* every field, the protocol as a str
RoundTrip(performative, pkind, protocol) ==
    LET built == MakeAclResult(performative, pkind, protocol) IN
    /\ aclIn = NoAclCall
    /\ aclIn' = AclCall("round_trip", performative, pkind, protocol)
    /\ aclOut' = IF built.ok THEN LoadsResult(built.performative, "str", built.protocol)
                 ELSE NoAclFrame
    /\ UNCHANGED exceptAcl

\* one call in every behaviour, on any of the inputs
AclNext ==
    \/ \E pf \in RawPerformatives, pr \in ProtocolInputs : MakeAcl(pf, pr[1], pr[2])
    \/ \E pf \in RawPerformatives, pr \in ProtocolInputs : Loads(pf, pr[1], pr[2])
    \/ \E pf \in RawPerformatives, pr \in ProtocolInputs : RoundTrip(pf, pr[1], pr[2])

\* PresenterAgent.__init__ and setup(): no queue, the lock free, an empty book
InitPres ==
    /\ dQueues = {}
    /\ dTasks = [c \in DispConvs |-> "none"]
    /\ dSem = MAX_CONCURRENCY
    /\ dWaiters = <<>>
    /\ dLast = NoDispatch
    /\ pTasks = [q \in Questions |-> "none"]
    /\ pLock = FALSE
    /\ pHasQueue = FALSE
    /\ pQueue = <<>>
    /\ pDeadline = 0
    /\ pOut = <<>>
    /\ pShown = <<>>
    /\ pLast = NoPresLast
    /\ aclIn = NoAclCall
    /\ aclOut = NoAclFrame
    /\ coDfEnd = ""
    /\ tlKb = NoTimeline
    /\ tlPc = "idle"
    /\ tlItem = 0
    /\ tlRead = NoRead
    /\ tlLast = NoStore
    /\ coPc = "idle"
    /\ coSelf = NoTask
    /\ coCands = <<>>
    /\ coSel = NoSelection
    /\ coTry = <<>>
    /\ coHist = ""
    /\ coAttempts = 0
    /\ coOut = <<>>
    /\ coExc = FALSE
    /\ coGot = <<>>
    /\ coRaw = <<>>
    /\ catalog = <<>>
    /\ cap2jids = <<>>
    /\ lastCleanup = 0 - (CLEANUP_PERIOD + 1)
    /\ dfNow = 0
    /\ dfPc = "top"
    /\ dfLast = NoExchange
    /\ byConv = EmptyDict
    /\ now = 0
    /\ corrCall = NoCall
    /\ consumed = {}
    /\ scenario = "storage"
    /\ rows = {}
    /\ etagSeq = 0
    /\ pc = [h \in Handlers |-> "idle"]
    /\ req = [h \in Handlers |-> NoReq]
    /\ ver = [h \in Handlers |-> 0]
    /\ reply = [h \in Handlers |-> NoReply]
    /\ startMax = [h \in Handlers |-> 0]

\* no call made yet
InitAcl ==
    /\ dQueues = {}
    /\ dTasks = [c \in DispConvs |-> "none"]
    /\ dSem = MAX_CONCURRENCY
    /\ dWaiters = <<>>
    /\ dLast = NoDispatch
    /\ pTasks = [q \in Questions |-> "none"]
    /\ pLock = FALSE
    /\ pHasQueue = FALSE
    /\ pQueue = <<>>
    /\ pDeadline = 0
    /\ pOut = <<>>
    /\ pShown = <<>>
    /\ pLast = NoPresLast
    /\ aclIn = NoAclCall
    /\ aclOut = NoAclFrame
    /\ coDfEnd = ""
    /\ tlKb = NoTimeline
    /\ tlPc = "idle"
    /\ tlItem = 0
    /\ tlRead = NoRead
    /\ tlLast = NoStore
    /\ coPc = "idle"
    /\ coSelf = NoTask
    /\ coCands = <<>>
    /\ coSel = NoSelection
    /\ coTry = <<>>
    /\ coHist = ""
    /\ coAttempts = 0
    /\ coOut = <<>>
    /\ coExc = FALSE
    /\ coGot = <<>>
    /\ coRaw = <<>>
    /\ catalog = <<>>
    /\ cap2jids = <<>>
    /\ lastCleanup = 0 - (CLEANUP_PERIOD + 1)
    /\ dfNow = 0
    /\ dfPc = "top"
    /\ dfLast = NoExchange
    /\ byConv = EmptyDict
    /\ now = 0
    /\ corrCall = NoCall
    /\ consumed = {}
    /\ scenario = "storage"
    /\ rows = {}
    /\ etagSeq = 0
    /\ pc = [h \in Handlers |-> "idle"]
    /\ req = [h \in Handlers |-> NoReq]
    /\ ver = [h \in Handlers |-> 0]
    /\ reply = [h \in Handlers |-> NoReply]
    /\ startMax = [h \in Handlers |-> 0]

(***************************************************************************)
(* Coordinator: the timeline journal (agent/coordinator.py)                *)
(***************************************************************************)
\* COORD_HISTORY_LEN as the environment sets it (the default is 10)
HISTORY_LEN == 2
\* bound: the frames one conversation journals
MaxItems == 5

\* mutant: the truncation keeps the oldest entries
TruncateHistory_Oldest(curr) ==
    IF HISTORY_LEN > 0 /\ Len(curr) > HISTORY_LEN
    THEN SubSeq(curr, 1, HISTORY_LEN)
    ELSE curr

\* curr = curr[-history_len:] when history_len > 0 and curr is longer
TruncateHistory(curr) ==
    IF HISTORY_LEN > 0 /\ Len(curr) > HISTORY_LEN
    THEN SubSeq(curr, Len(curr) - HISTORY_LEN + 1, Len(curr))
    ELSE curr

\* _kb_put_timeline: if_match = f"v{int(v)}" if isinstance(v, int) else None
IfMatchOf(read) == IF read.how = "value" THEN <<"v">> \o DecStr(read.ver) ELSE <<>>

\* the KB on the STORE: a new version unless if_match names another one
KbAfterStore(kb, value, if_match) ==
    IF if_match = <<>> \/ IntOf(Tail(if_match)) = kb.ver
    THEN Timeline(kb.ver + 1, value)
    ELSE kb

\* _kb_log_acl_and_update_timeline begins: the item is built, the frame is
\* stored without waiting, and _kb_get_timeline sends its GET
TlBegin ==
    /\ tlPc = "idle"
    /\ tlItem < MaxItems
    /\ tlItem' = tlItem + 1
    /\ tlRead' = NoRead
    /\ tlPc' = "get"
    /\ UNCHANGED <<tlKb, tlLast>>
    /\ UNCHANGED exceptTl

\* _kb_get_timeline: INFORM VALUE for the key, (list(content), int(version))
TlGetValue ==
    /\ tlPc = "get"
    /\ tlKb.ver > 0
    /\ tlRead' = Read(tlKb.value, tlKb.ver, "value")
    /\ tlPc' = "put"
    /\ UNCHANGED <<tlKb, tlItem, tlLast>>
    /\ UNCHANGED exceptTl

\* _kb_get_timeline: FAILURE.NOT_FOUND, ([], None)
TlGetNotFound ==
    /\ tlPc = "get"
    /\ tlKb.ver = 0
    /\ tlRead' = Read(<<>>, 0, "not_found")
    /\ tlPc' = "put"
    /\ UNCHANGED <<tlKb, tlItem, tlLast>>
    /\ UNCHANGED exceptTl

\* _kb_get_timeline: no usable answer within kb_timeout, ([], None)
TlGetTimeout ==
    /\ tlPc = "get"
    /\ tlRead' = Read(<<>>, 0, "timeout")
    /\ tlPc' = "put"
    /\ UNCHANGED <<tlKb, tlItem, tlLast>>
    /\ UNCHANGED exceptTl

\* curr.append(item), the truncation, and _kb_put_timeline(curr, ver), which
\* sends the STORE and waits for no answer; the KB handles the STORE if it
\* gets it
TlPut ==
    /\ tlPc = "put"
    /\ LET curr == TruncateHistory(Append(tlRead.value, tlItem)) IN
       /\ tlLast' = Store(curr, IfMatchOf(tlRead), tlKb)
       /\ \E delivered \in BOOLEAN :
            tlKb' = IF delivered THEN KbAfterStore(tlKb, curr, IfMatchOf(tlRead))
                    ELSE tlKb
    /\ tlPc' = "idle"
    /\ UNCHANGED <<tlItem, tlRead>>
    /\ UNCHANGED exceptTl

TimelineNext ==
    \/ TlBegin
    \/ TlGetValue
    \/ TlGetNotFound
    \/ TlGetTimeout
    \/ TlPut

SpecTimeline == InitCoord /\ [][TimelineNext]_vars

SpecKB == InitKB /\ [][KBNext]_vars

SpecCorr == InitCorr /\ [][CorrNext]_vars

SpecDF == InitDF /\ [][DFNext]_vars

SpecCoord == InitCoord /\ [][CoordNext]_vars

\* every wait of run() ends, by a frame or by its timeout, and the event
\* loop resumes the task
SpecCoordFair == SpecCoord /\ WF_vars(CoordNext)

SpecDisp == InitDisp /\ [][DispNext]_vars

SpecQueues == InitDisp /\ [][QueuesNext]_vars

\* the event loop runs every task that can go on; every wait of a
\* pipeline has a timeout and the grace sleep ends
SpecDispFair ==
    /\ SpecDisp
    /\ \A c \in DispConvs : WF_vars(DStart(c) \/ DPipelineEnd(c) \/ DCleanup(c))

\* the restarted DF keeps running, the heartbeats and both queries keep
\* arriving
SpecDFRestart ==
    /\ InitDF /\ [][RestartNext]_vars
    /\ WF_vars(DFTop)
    /\ SF_vars(DFReceive(HeartbeatOfA))
    /\ SF_vars(DFReceive(ListQuery))
    /\ SF_vars(DFReceive(NeedQuery))

SpecPres == InitPres /\ [][PresNext]_vars

SpecAcl == InitAcl /\ [][AclNext]_vars

(***************************************************************************)
(* Properties of the KB agent                                              *)
(***************************************************************************)
RowsOf(tbl, key) == {r \in tbl : r.key = key}

TopVersion(tbl, key) ==
    LET vs == {r.version : r \in RowsOf(tbl, key)} IN
    IF vs = {} THEN 0 ELSE CHOOSE v \in vs : \A w \in vs : w <= v

RECURSIVE SplitColon(_)
\* the segments of a key between its colons
SplitColon(s) ==
    IF \A i \in 1..Len(s) : s[i] # ":" THEN <<s>>
    ELSE LET i == CHOOSE j \in 1..Len(s) : s[j] = ":" /\ \A k \in 1..(j - 1) : s[k] # ":" IN
         <<SubSeq(s, 1, i - 1)>> \o SplitColon(SubSeq(s, i + 1, Len(s)))

\* five colon-separated segments of [a-z0-9._-]+
WellFormedKey(key) ==
    /\ Len(SplitColon(key)) = 5
    /\ \A n \in 1..5 :
        /\ Len(SplitColon(key)[n]) > 0
        /\ \A i \in 1..Len(SplitColon(key)[n]) : SplitColon(key)[n][i] \in KeyChars

\* the sender's bare identity is the whitelisted Coordinator
FromCoordinator(f) == Lower(BeforeSlash(f.sender)) = Coordinator

\* KBCycle h took a frame in this step
Took(h) ==
    /\ pc[h] = "idle"
    /\ req'[h] # req[h] \/ reply'[h] # reply[h] \/ pc'[h] # pc[h]

\* KBCycle h sent a reply in this step
Replied(h) ==
    /\ pc'[h] = "idle"
    /\ reply'[h] # NoReply
    /\ Took(h) \/ pc[h] # "idle"

\* KBCycle h has answered a STORE that passed the checks of run()
StoreAnswered(h) ==
    /\ pc[h] = "idle"
    /\ req[h].type = "STORE"
    /\ reply[h].type \in {"STORED", "FAILURE.CONFLICT", "FAILURE.EXCEPTION"}

\* C1: for every key the versions of its rows are exactly 1..n, none missing
\* and none twice, and every STORED reply carries the key's previous highest
\* version + 1.
C1_VersionsDense ==
    /\ [](\A r \in rows :
            /\ {q.version : q \in RowsOf(rows, r.key)} = 1..Cardinality(RowsOf(rows, r.key)))
    /\ [][\A h \in Handlers :
            (Replied(h) /\ reply'[h].type = "STORED") =>
                /\ reply'[h].key = req[h].key
                /\ reply'[h].version = TopVersion(rows, req[h].key) + 1
                /\ reply'[h].version = TopVersion(rows', req[h].key)]_vars

\* C1 witness: a key at version 2 after a lost race, another key also stored
C1_Witness ==
    \E h, g \in Handlers :
        /\ reply[h].type = "STORED" /\ reply[h].version = 2
        /\ reply[g].type = "FAILURE.EXCEPTION" /\ req[g].key = req[h].key
        /\ pc[g] = "idle"
        /\ \E r \in rows : r.key # req[h].key

\* C2: two STOREs with if_match = "vN", both arrived while the key was at
\* version N >= 1, end as one STORED (version N+1) and one FAILURE.CONFLICT;
\* and a STORE with if_match = "vM" that arrived at version M is STORED with
\* M+1 unless another writer took M+1 first, which then is a FAILURE.CONFLICT.
C2_OneStoredOneConflict ==
    /\ \A h, g \in Handlers :
        ( /\ h # g
          /\ StoreAnswered(h) /\ StoreAnswered(g)
          /\ req[h].key = req[g].key
          /\ req[h].if_match = req[g].if_match
          /\ IsVersionTag(req[h].if_match)
          /\ IntOf(Tail(req[h].if_match)) >= 1
          /\ startMax[h] = IntOf(Tail(req[h].if_match))
          /\ startMax[g] = IntOf(Tail(req[g].if_match)) )
        => \E w, l \in {h, g} :
              /\ w # l
              /\ reply[w].type = "STORED" /\ reply[w].version = startMax[w] + 1
              /\ reply[l].type = "FAILURE.CONFLICT"
    /\ \A h \in Handlers :
        ( /\ StoreAnswered(h)
          /\ IsVersionTag(req[h].if_match)
          /\ startMax[h] = IntOf(Tail(req[h].if_match)) )
        => \/ reply[h].type = "STORED" /\ reply[h].version = startMax[h] + 1
           \/ \E r \in rows : r.key = req[h].key /\ r.version = startMax[h] + 1

\* C3: a STORE whose INSERT meets an existing (key, version) is answered
\* FAILURE.CONFLICT and adds no row.
C3_UniqueViolationIsConflict ==
    [][\A h \in Handlers :
        ( /\ pc[h] = "insert" /\ pc'[h] = "idle"
          /\ \E r \in rows : r.key = req[h].key /\ r.version = ver[h] )
        => reply'[h].type = "FAILURE.CONFLICT" /\ rows' = rows]_vars

\* C4: a STORE with an ETag as if_match is STORED only if that ETag is the
\* etag of the row that was the key's latest, i.e. of version (stored - 1).
C4_EtagMustBeLatest ==
    \A h \in Handlers :
        ( /\ StoreAnswered(h) /\ reply[h].type = "STORED"
          /\ Len(req[h].if_match) > 0 /\ ~IsVersionTag(req[h].if_match) )
        => \E r \in rows :
              /\ r.key = req[h].key
              /\ r.version = reply[h].version - 1
              /\ r.etag = req[h].if_match

\* C5: no step changes or removes a row; a STORED reply comes with exactly
\* one new row (the one it names); a REFUSE, a FAILURE or a VALUE reply comes
\* with no change of the table.
C5_AppendOnly ==
    [][/\ rows \subseteq rows'
       /\ \A h \in Handlers :
            (Replied(h) /\ reply'[h].type = "STORED") =>
                /\ Cardinality(rows') = Cardinality(rows) + 1
                /\ \E r \in rows' \ rows :
                      /\ r.key = req[h].key /\ r.value = req[h].value
                      /\ r.version = reply'[h].version /\ r.etag = reply'[h].etag
       /\ \A h \in Handlers :
            (Replied(h) /\ reply'[h].type # "STORED") => rows' = rows
       /\ rows' # rows => \E h \in Handlers : Replied(h) /\ reply'[h].type = "STORED"]_vars

\* C5 witness: a STORED and a FAILURE reply with two rows in the table
C5_Witness ==
    \E h, g \in Handlers :
        /\ reply[h].type = "STORED" /\ reply[h].version = 2
        /\ reply[g].performative = "FAILURE" /\ req[g].type = "STORE"
        /\ Cardinality(rows) >= 2

\* C6: a frame whose sender is not the Coordinator is answered
\* REFUSE.UNAUTHORIZED whatever its body and leaves the table unchanged; a
\* row is written or a VALUE returned only for the Coordinator.
C6_OnlyCoordinator ==
    [][\A h \in Handlers :
        /\ (Took(h) /\ ~FromCoordinator(req'[h])) =>
                /\ reply'[h].performative = "REFUSE"
                /\ reply'[h].type = "REFUSE.UNAUTHORIZED"
                /\ rows' = rows
        /\ (Replied(h) /\ reply'[h].type \in {"STORED", "VALUE"}) => FromCoordinator(req'[h])]_vars

\* C7: a STORE or GET of the Coordinator whose key is not five segments of
\* [a-z0-9._-]+ is answered FAILURE.INVALID_KEY and stores nothing; an
\* unconditional STORE that finds no row of its key is STORED with version 1.
C7_KeyValidation ==
    [][\A h \in Handlers :
        /\ ( /\ Took(h) /\ req'[h].json /\ FromCoordinator(req'[h])
             /\ req'[h].type \in {"STORE", "GET"}
             /\ ~WellFormedKey(req'[h].key) )
           => /\ reply'[h].type = "FAILURE.INVALID_KEY"
              /\ pc'[h] = "idle"
              /\ rows' = rows
        /\ ( /\ pc[h] = "insert" /\ pc'[h] = "idle"
             /\ Len(req[h].if_match) = 0
             /\ WellFormedKey(req[h].key)
             /\ RowsOf(rows, req[h].key) = {} )
           => reply'[h].type = "STORED" /\ reply'[h].version = 1]_vars

\* C8: a GET of the Coordinator without version on a well-formed key returns
\* the key's highest row (its version, etag and value), at least the version
\* of every STORED reply sent before for that key; FAILURE.NOT_FOUND exactly
\* when the key has no row.
C8_GetLatest ==
    [][\A h \in Handlers :
        ( /\ Took(h) /\ req'[h].json /\ FromCoordinator(req'[h])
          /\ req'[h].type = "GET" /\ ~req'[h].hasVersion
          /\ WellFormedKey(req'[h].key) )
        => /\ rows' = rows
           /\ IF RowsOf(rows, req'[h].key) = {}
              THEN reply'[h].type = "FAILURE.NOT_FOUND"
              ELSE /\ reply'[h].type = "VALUE"
                   /\ reply'[h].key = req'[h].key
                   /\ reply'[h].version = TopVersion(rows, req'[h].key)
                   /\ \E r \in RowsOf(rows, req'[h].key) :
                         /\ r.version = reply'[h].version
                         /\ r.etag = reply'[h].etag
                         /\ r.value = reply'[h].value
           /\ \A g \in Handlers :
                (reply[g].type = "STORED" /\ reply[g].key = req'[h].key) =>
                    reply'[h].type = "VALUE" /\ reply'[h].version >= reply[g].version]_vars

\* C8 witness: a GET answered with version 2 after the other KBCycle has
\* answered STORED version 2 for the key
C8_Witness ==
    \E h, g \in Handlers :
        /\ h # g
        /\ req[h].type = "GET" /\ ~req[h].hasVersion
        /\ reply[h].type = "VALUE" /\ reply[h].version = 2
        /\ reply[g].type = "STORED" /\ reply[g].version = 2
        /\ reply[g].key = reply[h].key

(***************************************************************************)
(* Properties of the correlation book                                      *)
(***************************************************************************)
\* this step is a call of match_and_pop for a pair
MatchCall == corrCall'.op = "match_and_pop" /\ corrCall'.irt # NoRid

\* C9: for a registered, unexpired expectation with non-empty allow_from and
\* allow_pf, match_and_pop returns true iff the sender is in allow_from and
\* the (upper-cased) performative is in allow_pf; a rejection leaves the
\* book as it was.
C9_SenderAndPerformativeGate ==
    [][( /\ MatchCall
         /\ <<corrCall'.conv, corrCall'.irt>> \in Entries(byConv)
         /\ now <= byConv[corrCall'.conv][corrCall'.irt].expires_at
         /\ byConv[corrCall'.conv][corrCall'.irt].allow_from # {}
         /\ byConv[corrCall'.conv][corrCall'.irt].allow_pf # {} )
       => /\ corrCall'.result <=>
                /\ corrCall'.from \in byConv[corrCall'.conv][corrCall'.irt].allow_from
                /\ Upper(corrCall'.pf) \in byConv[corrCall'.conv][corrCall'.irt].allow_pf
          /\ ~corrCall'.result => byConv' = byConv]_vars

\* C9 witness: a response of the wrong sender was rejected and the
\* expectation (unexpired, with both restrictions) is still in the book
C9_Witness ==
    /\ corrCall.op = "match_and_pop"
    /\ ~corrCall.result
    /\ <<corrCall.conv, corrCall.irt>> \in Entries(byConv)
    /\ now <= byConv[corrCall.conv][corrCall.irt].expires_at
    /\ byConv[corrCall.conv][corrCall.irt].allow_from = {SenderS}
    /\ byConv[corrCall.conv][corrCall.irt].allow_pf = {INFORM}
    /\ corrCall.from = SenderZ
    /\ Upper(corrCall.pf) = INFORM

\* C10: once match_and_pop has returned true for a consuming performative,
\* every later match_and_pop for the same (conv, in_reply_to) returns false
\* until the pair is registered again.
C10_ConsumedAtMostOnce ==
    [][(MatchCall /\ <<corrCall'.conv, corrCall'.irt>> \in consumed) => ~corrCall'.result]_vars

\* C10 witness: the second INFORM of the right sender on a consumed pair
\* was rejected
C10_Witness ==
    /\ corrCall.op = "match_and_pop"
    /\ <<corrCall.conv, corrCall.irt>> \in consumed
    /\ corrCall.from = SenderS
    /\ Upper(corrCall.pf) = INFORM
    /\ ~corrCall.result

\* C11: a successful match removes the expectation iff consume_on is set
\* and holds the performative, or consume_on is unset and not (allow_pf has
\* more than one performative and the performative is AGREE); no other entry
\* is touched.
C11_ConsumeRule ==
    [][( /\ MatchCall
         /\ corrCall'.result
         /\ <<corrCall'.conv, corrCall'.irt>> \in Entries(byConv) )
       => /\ (<<corrCall'.conv, corrCall'.irt>> \notin Entries(byConv'))
                <=> SpecConsumes(byConv[corrCall'.conv][corrCall'.irt], Upper(corrCall'.pf))
          /\ \A e \in Entries(byConv) \ {<<corrCall'.conv, corrCall'.irt>>} :
                e \in Entries(byConv') /\ byConv'[e[1]][e[2]] = byConv[e[1]][e[2]]
          /\ <<corrCall'.conv, corrCall'.irt>> \in Entries(byConv')
                => byConv' = byConv]_vars

\* C11 witness: an AGREE passed on an expectation registered for AGREE and
\* INFORM, and the expectation is still in the book
C11_Witness ==
    /\ corrCall.op = "match_and_pop"
    /\ corrCall.result
    /\ corrCall.pf = AGREE
    /\ <<corrCall.conv, corrCall.irt>> \in Entries(byConv)
    /\ byConv[corrCall.conv][corrCall.irt].allow_pf = {AGREE, INFORM}
    /\ byConv[corrCall.conv][corrCall.irt].consume_on = SetTo({INFORM})

\* the entries of the book whose expires_at has passed
ExpiredEntries == {e \in Entries(byConv) : now > byConv[e[1]][e[2]].expires_at}

\* C12: match_and_pop on an expired expectation returns false, whatever the
\* sender and performative, and deletes that entry only; sweep() removes
\* exactly the expired entries and keeps the others as they are.
C12_ExpiredNeverMatches ==
    [][/\ ( MatchCall /\ <<corrCall'.conv, corrCall'.irt>> \in ExpiredEntries )
          => /\ ~corrCall'.result
             /\ Entries(byConv') = Entries(byConv) \ {<<corrCall'.conv, corrCall'.irt>>}
             /\ \A e \in Entries(byConv') : byConv'[e[1]][e[2]] = byConv[e[1]][e[2]]
       /\ corrCall'.op = "sweep"
          => /\ Entries(byConv') = Entries(byConv) \ ExpiredEntries
             /\ \A e \in Entries(byConv') : byConv'[e[1]][e[2]] = byConv[e[1]][e[2]]
             /\ \A c \in DOMAIN byConv' : DOMAIN byConv'[c] # {}]_vars

\* C12 witness: an otherwise acceptable response was rejected and its
\* (expired) entry deleted, while an unexpired entry stayed in the book
C12_Witness ==
    /\ corrCall.op = "match_and_pop"
    /\ ~corrCall.result
    /\ corrCall.removed = {<<corrCall.conv, corrCall.irt>>}
    /\ Entries(byConv) # {}

\* C13: match_and_pop without in_reply_to returns true for every
\* conversation, sender and performative and leaves the book unchanged.
C13_InitiatingFramePasses ==
    [][(corrCall'.op = "match_and_pop" /\ corrCall'.irt = NoRid)
       => corrCall'.result /\ byConv' = byConv]_vars

\* C13 witness: a frame without in_reply_to passed in a conversation the
\* book does not know, from a sender no expectation allows
C13_Witness ==
    /\ corrCall.op = "match_and_pop"
    /\ corrCall.irt = NoRid
    /\ corrCall.result
    /\ corrCall.conv = "c2"
    /\ corrCall.from = SenderZ
    /\ Entries(byConv) # {}

(***************************************************************************)
(* Properties of the Directory Facilitator                                 *)
(***************************************************************************)
\* the DF has just answered a QUERY-REF
Answered == dfLast.msg.kind = "QUERY-REF" /\ dfLast.sent.performative = "INFORM"

\* the catalog records that are alive now and have a capability equal to
\* cap ignoring letter case
LiveWithCapability(cap) ==
    {r \in Range(catalog) :
        /\ dfNow - r.last_seen <= 2 * HEARTBEAT_SEC
        /\ \E c \in r.capabilities : Upper(c) = Upper(cap)}

\* C14: a QUERY-REF with need = C (C not empty, ALL or *) is answered with
\* exactly the alive catalog profiles that have capability C ignoring case,
\* each jid once, in candidates and in profiles.
C14_NeedQueryExact ==
    ( /\ Answered
      /\ dfLast.msg.qtype = ""
      /\ Upper(dfLast.msg.need) \notin {<<>>, ALL, Star}
      /\ Strip(dfLast.msg.need) = dfLast.msg.need )
    => /\ Range(dfLast.sent.candidates) = {r.jid : r \in LiveWithCapability(dfLast.msg.need)}
       /\ Range(dfLast.sent.profiles) = LiveWithCapability(dfLast.msg.need)
       /\ Len(dfLast.sent.candidates) = Cardinality(LiveWithCapability(dfLast.msg.need))
       /\ Len(dfLast.sent.profiles) = Cardinality(LiveWithCapability(dfLast.msg.need))

\* jids is in ascending order
Ascending(jids) == \A i, j \in 1..Len(jids) : i < j => ~TextLess(jids[j], jids[i])

\* C15: in every INFORM answer to a QUERY-REF, candidates and profiles are
\* sorted by jid ascending.
C15_AnswersSortedByJid ==
    Answered => /\ Ascending(dfLast.sent.candidates)
                /\ Ascending([i \in 1..Len(dfLast.sent.profiles) |-> dfLast.sent.profiles[i].jid])

\* C16: a profile last seen at t0 (registered, no heartbeat since) is in a
\* LIST answer iff now <= t0 + 2*HEARTBEAT_SEC, and is in no LIST or DUMP
\* answer when now > t0 + TTL_MULTIPLIER*HEARTBEAT_SEC.
C16_LivenessWindow ==
    (Answered /\ dfLast.msg.qtype \in {"LIST", "DUMP"})
    => \A r \in Range(catalog) :
          /\ dfLast.msg.qtype = "LIST"
                => (r.jid \in Range(dfLast.sent.candidates)
                        <=> dfNow <= r.last_seen + 2 * HEARTBEAT_SEC)
          /\ r.jid \in Range(dfLast.sent.candidates)
                => dfNow <= r.last_seen + TTL_MULTIPLIER * HEARTBEAT_SEC

\* C17: a REGISTER whose profile has no jid is answered FAILURE with reason
\* INVALID_PROFILE, the request's conversation_id and in_reply_to = its
\* reply_with; catalog and capability index stay as they are.
C17_RegisterWithoutJid ==
    [][(dfLast'.msg.kind = "REGISTER" /\ ~dfLast'.msg.has_jid)
       => /\ dfLast'.sent = DfFrame("FAILURE", "INVALID_PROFILE", <<>>, <<>>,
                                    dfLast'.msg.conversation_id, dfLast'.msg.reply_with)
          /\ catalog' = catalog
          /\ cap2jids' = cap2jids]_vars

\* C17 witness: the FAILURE for a REGISTER without jid, sent while the
\* catalog holds a profile
C17_Witness ==
    /\ dfLast.msg.kind = "REGISTER"
    /\ ~dfLast.msg.has_jid
    /\ dfLast.sent.performative = "FAILURE"
    /\ dfLast.sent.in_reply_to = "r2"
    /\ catalog # <<>>
    /\ cap2jids # <<>>

\* jid is listed under capability cap in the index idx
Listed(idx, cap, jid) == \E i \in 1..Len(idx) : idx[i].cap = cap /\ jid \in Range(idx[i].jids)

\* C18: right after DEREGISTER of J is answered AGREE deregistered, J is
\* not in the catalog, no index entry refers to J, no index entry has an
\* empty list, and the records and index entries of other jids are unchanged.
C18_DeregisterRemoves ==
    [][(dfLast'.msg.kind = "DEREGISTER" /\ dfLast'.sent.word = "deregistered")
       => /\ \A r \in Range(catalog') : r.jid # dfLast'.msg.jid
          /\ \A i \in 1..Len(cap2jids') :
                /\ dfLast'.msg.jid \notin Range(cap2jids'[i].jids)
                /\ cap2jids'[i].jids # <<>>
          /\ Range(catalog') = {r \in Range(catalog) : r.jid # dfLast'.msg.jid}
          /\ \A c \in {CapLower, CapUpper}, j \in DfJids \ {dfLast'.msg.jid} :
                Listed(cap2jids', c, j) <=> Listed(cap2jids, c, j)]_vars

\* C18 witness: a registered jid was deregistered while another jid stays
\* in the catalog and in the index
C18_Witness ==
    /\ dfLast.msg.kind = "DEREGISTER"
    /\ dfLast.sent.word = "deregistered"
    /\ dfLast.known
    /\ catalog # <<>>
    /\ cap2jids # <<>>

(***************************************************************************)
(* Properties of the Coordinator                                           *)
(***************************************************************************)
\* the INFORM.PRESENTER_REPLY frames sent so far
PresenterReplies ==
    SelectSeq(coOut, LAMBDA f : f.performative = "INFORM" /\ f.type = "PRESENTER_REPLY")

\* the identity the USER_MSG came from: content.meta.presenter_jid, else the bare sender
Originator == IF coSelf.meta # <<>> THEN coSelf.meta ELSE BeforeSlash(coSelf.sender)

\* exactly one reply has been sent, to the originator, with the USER_MSG's conversation_id
OneReplySent ==
    /\ Len(PresenterReplies) = 1
    /\ PresenterReplies[1].to = Originator
    /\ coSelf.conv # "" => PresenterReplies[1].conversation_id = coSelf.conv

\* C19: every ServeConversation spawned for a USER_MSG eventually sends
\* exactly one INFORM.PRESENTER_REPLY, with the USER_MSG's conversation_id,
\* to the originating Presenter, whatever the DF, the Selector, the KB and
\* the Specialists do
C19_ReplyOnEveryPath ==
    /\ (coPc # "idle") ~> OneReplySent
    /\ [](Len(PresenterReplies) <= 1)

\* the Selector call failed or chose a jid outside the candidates
SelectorFailed ==
    \/ coSel.kind \in {"raise", "error", "not_json"}
    \/ coSel.kind = "object" /\ coSel.jid \notin JidSet(coCands)

\* the REQUEST.ASK_EXPERT frames sent so far
AskExperts ==
    SelectSeq(coOut, LAMBDA f : f.performative = "REQUEST" /\ f.type = "ASK_EXPERT")

\* C20: when the Selector call fails (error result, exception, text that is
\* no JSON, no selected_jid) or returns a jid outside the candidates, run()
\* goes on with the deterministic fallback choice and sends it the first
\* REQUEST.ASK_EXPERT
C20_SelectorFailureFallsBack ==
    SelectorFailed =>
        /\ ~coExc
        /\ Len(coTry) > 0
        /\ coTry[1] = Fallback(coCands)
        /\ coPc \in {"wait", "grace", "done"} =>
               /\ Len(AskExperts) > 0
               /\ AskExperts[1].to = Fallback(coCands)

\* the Selector call returned and gave no valid choice
NoValidChoice ==
    /\ coSel # NoSelection
    /\ ~AiSelectRaises(coSel)
    /\ AiSelectCandidate(coCands, coSel) = <<>>

\* the status is online, available or ready, in any letter case
StatusUp(c) == Lower(c.status) \in {Online, Available, Ready}

\* of a set of candidates: those with such a status and the required
\* capability, else those with such a status, else all
Preferred(S) ==
    LET both == {c \in S : StatusUp(c) /\ NEED_CAP \in c.capabilities}
        up == {c \in S : StatusUp(c)}
    IN  IF both # {} THEN both ELSE IF up # {} THEN up ELSE S

\* the lexicographically smallest jid of a set of candidates
SmallestJid(S) ==
    CHOOSE j \in {c.jid : c \in S} : \A c \in S : c.jid = j \/ TextLess(j, c.jid)

\* the same candidates in every order
Reorderings(seq) ==
    {[i \in 1..Len(seq) |-> seq[p[i]]] : p \in Permutations(1..Len(seq))}

\* C21: with no valid Selector choice the selected jid is the smallest jid
\* of the preferred candidates (status online/available/ready and the
\* required capability, else such a status, else all), and the choice is
\* the same for every order of the same candidates
C21_FallbackIsSmallestPreferred ==
    NoValidChoice =>
        /\ coTry[1] = SmallestJid(Preferred(Range(coCands)))
        /\ \A r \in Reorderings(coCands) : Fallback(r) = coTry[1]

\* the fallback chose a candidate that is not the first of the DF's list
C21_Witness ==
    /\ NoValidChoice
    /\ Len(coCands) >= 2
    /\ coTry[1] # coCands[1].jid

\* C22: a conversation sends at most MAX_RETRIES REQUEST.ASK_EXPERT frames,
\* the i-th to the i-th jid of the try-list [selected] + the other
\* candidates in their order, and the first non-empty answer ends the
\* attempts and is the text of the reply to the Presenter
C22_AttemptsBoundedAndOrdered ==
    /\ Len(AskExperts) <= MAX_RETRIES
    /\ \A i \in 1..Len(AskExperts) : AskExperts[i].to = coTry[i]
    /\ Len(coTry) > 0 =>
           Tail(coTry) = SelectSeq(JidList(coCands), LAMBDA j : j # coTry[1])
    /\ \A i \in 1..Len(coGot) :
           coGot[i].answer # "" =>
               /\ i = Len(coGot)
               /\ coPc \in {"grace", "done"}
               /\ coOut[Len(coOut)] = PresenterReply(coSelf, coGot[i].answer)
               /\ Len(PresenterReplies) = 1

\* three candidates, MAX_RETRIES attempts made, the last one answered
C22_Witness ==
    /\ Len(coTry) > MAX_RETRIES
    /\ Len(AskExperts) = MAX_RETRIES
    /\ coPc = "done"
    /\ Len(coGot) > 0
    /\ coGot[Len(coGot)].answer # ""

\* C23: an INFORM.RESULT that answers an earlier ASK_EXPERT attempt is
\* never the frame a later attempt returns its answer from (and so never
\* what is forwarded to the Presenter)
C23_StaleResultDropped ==
    \A i \in 1..Len(coGot) :
        /\ coGot[i].attempt = coGot[i].during
        /\ coGot[i].from = coTry[coGot[i].during]

\* df_lookup returned, and it returned no candidates
LookupEmpty == coPc \notin {"idle", "df"} /\ Len(coRaw) = 0

\* C24: when the DF lookup yields no candidates, no REQUEST.ASK_EXPERT is
\* sent and the Presenter gets the INFORM.PRESENTER_REPLY with the text
\* NoSpecialistsText
C24_NoCandidatesReply ==
    LookupEmpty =>
        /\ Len(AskExperts) = 0
        /\ PresenterReplies = <<PresenterReply(coSelf, NoSpecialistsText)>>
        /\ PresenterReplies[1].body = "Brak dostepnych specjalistow (ASK_EXPERT)."

\* a conversation that ended after an empty lookup
C24_Witness == LookupEmpty /\ coPc = "done" /\ Len(PresenterReplies) = 1

(***************************************************************************)
(* Properties of the Coordinator's Dispatcher                              *)
(***************************************************************************)
\* C25: every REQUEST.USER_MSG the Dispatcher receives gets a queue and a
\* ServeConversation, also when its conversation_id is that of a
\* conversation still served or in its grace sleep
C25_EveryUserMsgServed ==
    dLast.kind = "USER_MSG" =>
        /\ dLast.outcome = "spawned"
        /\ (IF dLast.conv = "" THEN SessConv ELSE dLast.conv) \in dQueues

\* the tasks between acquiring and releasing the semaphore
Holders == {c \in DispConvs : dTasks[c] \in {"running", "grace"}}

\* C26: at most MAX_CONCURRENCY ServeConversation tasks hold the semaphore
\* at any moment, and every task that waits for it eventually runs
C26_BoundedConcurrency ==
    /\ [](Cardinality(Holders) <= MAX_CONCURRENCY)
    /\ \A c \in DispConvs : (dTasks[c] \in {"new", "waiting"}) ~> (dTasks[c] = "running")

\* all permits are taken and a further task waits
C26_Witness ==
    /\ Cardinality(Holders) = MAX_CONCURRENCY
    /\ Len(dWaiters) > 0

(***************************************************************************)
(* Properties of the Presenter                                             *)
(***************************************************************************)
\* the reply_with of the USER_MSG frames sent so far
SentRids == {pOut[i].reply_with : i \in 1..Len(pOut)}

\* C27: every frame the Presenter's Dispatcher passes to a conversation
\* queue comes from the Coordinator's bare identity and carries an
\* in_reply_to equal to the reply_with of a USER_MSG the Presenter sent and
\* still expects; a frame from any other sender is dropped
C27_OnlyCorrelatedFramesQueued ==
    /\ pLast.outcome = "queued" =>
            /\ BeforeSlash(pLast.frame.from) = BeforeSlash(COORD_JID)
            /\ pLast.frame.in_reply_to \in SentRids
            /\ pLast.expected
    /\ \A i \in 1..Len(pShown) :
            /\ BeforeSlash(pShown[i].frame.from) = BeforeSlash(COORD_JID)
            /\ pShown[i].frame.in_reply_to \in SentRids

\* the USER_MSG frames whose wait has ended and whose queue has been dropped
Ended == {q \in Questions : pTasks[q] = "done"}

\* C29: on one Presenter session at most one USER_MSG is outstanding: a
\* further USER_MSG is sent only after the wait of the previous one has
\* ended and its queue has been dropped
C29_OneOutstandingUserMsg ==
    /\ Len(pOut) <= Cardinality(Ended) + 1
    /\ Cardinality({q \in Questions : pTasks[q] \in {"wait", "grace"}}) <= 1

\* the first question is waiting for its reply, the second one has been
\* submitted and is held back by the lock
C29_Witness ==
    /\ pTasks[1] = "wait"
    /\ pTasks[2] = "new"
    /\ Len(pOut) = 1

(***************************************************************************)
(* Properties of the response frames                                       *)
(***************************************************************************)
\* the DF's answers carry the request's reply_with and conversation_id
DfAnswersCorrelated ==
    dfLast.sent # NoFrame =>
        /\ dfLast.sent.in_reply_to = dfLast.msg.reply_with
        /\ dfLast.sent.conversation_id = dfLast.msg.conversation_id

\* C28: every response frame carries in_reply_to equal to the reply_with
\* of the frame it answers and that frame's conversation_id; here for the
\* Coordinator's INFORM.PRESENTER_REPLY, the answer to the USER_MSG
C28_RepliesCarryInReplyTo ==
    \A i \in 1..Len(PresenterReplies) :
        /\ PresenterReplies[i].in_reply_to = coSelf.reply_with
        /\ coSelf.conv # "" => PresenterReplies[i].conversation_id = coSelf.conv

(***************************************************************************)
(* Properties of the ACL frames                                            *)
(***************************************************************************)
\* the protocol of a performative, as the table of defaults gives it
TableProtocol(pf) ==
    IF pf \in {QUERY_IF, QUERY_REF} THEN FIPA_QUERY
    ELSE IF pf = SUBSCRIBE THEN FIPA_SUBSCRIBE
    ELSE IF pf \in {CFP, PROPOSE, ACCEPT_PROPOSAL, REJECT_PROPOSAL} THEN FIPA_CONTRACT_NET
    ELSE FIPA_REQUEST

\* the call named no protocol: absent, or blank
NoProtocolGiven == aclIn.pkind = "absent" \/ (aclIn.pkind = "str" /\ Len(Strip(aclIn.protocol)) = 0)

\* C30: every ACL frame built (make_acl) or parsed (AclMessage.loads)
\* without a protocol, absent or blank, gets the protocol its performative
\* selects: fipa-query for QUERY-IF and QUERY-REF, fipa-subscribe for
\* SUBSCRIBE, fipa-contract-net for CFP, PROPOSE, ACCEPT-PROPOSAL and
\* REJECT-PROPOSAL, fipa-request for every other performative
C30_ProtocolFromPerformative ==
    (aclOut.ok /\ NoProtocolGiven) => aclOut.protocol = TableProtocol(aclOut.performative)

\* the same for the frames that make_acl builds
C30_MakeAclFillsProtocol ==
    (aclIn.op = "make_acl" /\ aclOut.ok /\ NoProtocolGiven) =>
        aclOut.protocol = TableProtocol(aclOut.performative)

\* C31: normalize_performative is idempotent and fixes each of the 20
\* performatives; make_acl followed by AclMessage.loads gives back each of
\* them; a frame whose normalized performative is not one of them is
\* rejected
C31_NormalizeIdempotentAndClosed ==
    LET p == aclIn.performative
        n == NormalizePerformative(p) IN
    aclIn.op # "none" =>
        /\ NormalizePerformative(n) = n
        /\ p \in VALID_PERFORMATIVES => n = p
        /\ (aclIn.op = "round_trip" /\ p \in VALID_PERFORMATIVES) =>
                (aclOut.ok /\ aclOut.performative = p)
        /\ n \notin VALID_PERFORMATIVES => ~aclOut.ok
        /\ aclOut.ok => aclOut.performative \in VALID_PERFORMATIVES

\* REQUEST-WHENEVER, the performative two of the replacements touch, came
\* back from the round trip
C31_Witness ==
    /\ aclIn.op = "round_trip"
    /\ aclIn.performative = REQUEST_WHENEVER
    /\ aclOut.ok
    /\ aclOut.performative = REQUEST_WHENEVER

\* a text outside the set was rejected
C31_WitnessRejected ==
    /\ aclIn.op = "loads"
    /\ aclIn.performative = <<"H","E","L","L","O">>
    /\ ~aclOut.ok

(***************************************************************************)
(* Properties of the Directory Facilitator's catalog                       *)
(***************************************************************************)
\* the capabilities that are a key of the index or in a record
AllCaps ==
    {cap2jids[i].cap : i \in 1..Len(cap2jids)}
        \cup UNION {catalog[i].capabilities : i \in 1..Len(catalog)}

\* C32: the capability index is the relation derived from the catalog: a
\* jid is listed under c iff it is in the catalog and c is one of its
\* record's capabilities; no jid twice under one capability, no capability
\* with an empty list
C32_IndexDerivedFromCatalog ==
    /\ \A jid \in DfJids, c \in AllCaps :
            Listed(cap2jids, c, jid) <=> (InCatalog(catalog, jid) /\ c \in CatGet(catalog, jid).capabilities)
    /\ \A i \in 1..Len(cap2jids) :
            /\ cap2jids[i].jids # <<>>
            /\ Cardinality(Range(cap2jids[i].jids)) = Len(cap2jids[i].jids)

\* the answer just sent to query q names jid
Returned(q, jid) == dfLast.msg = q /\ jid \in Range(dfLast.sent.candidates)

\* C34: starting from an empty catalog, an agent that only keeps sending
\* HEARTBEAT frames is eventually returned by LIST and by a QUERY-REF whose
\* need is one of its capabilities
C34_HeartbeatReregisters ==
    /\ <>Returned(ListQuery, JidA)
    /\ <>Returned(NeedQuery, JidA)

\* the part that concerns LIST
C34_ListedAgain == <>Returned(ListQuery, JidA)

\* the record of jid before a step, if any
Prior(jid) == IF InCatalog(catalog, jid) THEN CatGet(catalog, jid) ELSE Record(jid, {}, 0, "", <<>>)

\* C33: after a REGISTER of jid J the capabilities of J's record are the
\* union of its prior and the incoming ones, its status is online whatever
\* the profile declared, its last_seen is the time of the REGISTER, an
\* incoming field other than jid and type overwrites the stored one, and
\* the records of the other jids are unchanged
C33_RegisterMerges ==
    [][LET m == dfLast'.msg IN
       (m.kind = "REGISTER" /\ m.has_jid) =>
            /\ InCatalog(catalog', m.jid)
            /\ LET new == CatGet(catalog', m.jid) IN
                /\ new.capabilities = Prior(m.jid).capabilities \cup (IF m.has_caps THEN m.caps ELSE {})
                /\ new.status = "online"
                /\ new.last_seen = dfNow
                /\ m.has_name => new.name = m.name
                /\ (~m.has_name /\ Prior(m.jid).name # <<>>) => new.name = Prior(m.jid).name
            /\ \A jid \in DfJids \ {m.jid} :
                /\ InCatalog(catalog', jid) <=> InCatalog(catalog, jid)
                /\ InCatalog(catalog, jid) => CatGet(catalog', jid) = CatGet(catalog, jid)]_vars

\* a REGISTER of a known jid added a capability to the one it had, while
\* another jid is registered
C33_Witness ==
    /\ dfLast.msg.kind = "REGISTER"
    /\ dfLast.known
    /\ dfLast.msg.caps = {CapUpper}
    /\ InCatalog(catalog, dfLast.msg.jid)
    /\ CatGet(catalog, dfLast.msg.jid).capabilities = {CapLower, CapUpper}
    /\ InCatalog(catalog, JidB)

\* a REGISTER that declares the status busy and a name was merged into a
\* known record
C33_WitnessFields ==
    /\ dfLast.msg.kind = "REGISTER"
    /\ dfLast.known
    /\ dfLast.msg.has_name
    /\ CatGet(catalog, dfLast.msg.jid).name = <<"n">>
    /\ CatGet(catalog, dfLast.msg.jid).status = "online"
    /\ CatGet(catalog, dfLast.msg.jid).capabilities # {}

(***************************************************************************)
(* Properties of the Coordinator's DF lookup                               *)
(***************************************************************************)
\* df_lookup has returned
LookupDone == coPc \notin {"idle", "df"}

\* C35: df_lookup ends with a candidate list only on an INFORM that carries
\* profiles or candidates; every other frame of the conversation, an
\* INFORM without profiles and candidates included, leaves it waiting;
\* without such an INFORM it ends empty after REQ_TIMEOUT_S
C35_LookupEndsOnListsOrTimeout ==
    LookupDone =>
        /\ coDfEnd \in {"lists", "timeout"}
        /\ Len(coRaw) > 0 => coDfEnd = "lists"
        /\ coDfEnd = "timeout" => Len(coRaw) = 0

\* the weaker statement: a non-empty list comes from an INFORM with lists
\* only, frames that are no INFORM are skipped
C35_ListOnlyFromInform ==
    LookupDone =>
        /\ coDfEnd \in {"lists", "timeout", "inform"}
        /\ Len(coRaw) > 0 => coDfEnd = "lists"

\* C36: every REQUEST.ASK_EXPERT of the conversation is addressed to a jid
\* of the normalized candidate list; a selected_jid of the Selector that is
\* not in the list is never a target
C36_TargetsAreCandidates ==
    \A i \in 1..Len(AskExperts) :
        /\ AskExperts[i].to \in JidSet(coCands)
        /\ AskExperts[i].to = coTry[i]

\* the Selector named a jid outside the candidates and both attempts have
\* been sent
C36_Witness ==
    /\ coSel.kind = "object"
    /\ coSel.jid # <<>>
    /\ coSel.jid \notin JidSet(coCands)
    /\ Len(AskExperts) = MAX_RETRIES

\* C37: a ServeConversation that has ended has left neither its queue nor a
\* temporary KB queue in conv_queues, and a frame other than USER_MSG that
\* arrives for its conversation_id then is dropped and creates no queue and
\* no task
C37_EndedConversationLeavesNoQueue ==
    /\ [](\A c \in DispConvs :
            dTasks[c] = "done" => c \notin dQueues /\ KbGetConv(c) \notin dQueues)
    /\ [][\A c \in DispConvs :
            (dTasks[c] = "done" /\ dLast'.kind \in {"other", "kb"}
               /\ dLast'.conv \in {c, KbGetConv(c)})
            => /\ dLast'.outcome = "dropped"
               /\ dQueues' = dQueues
               /\ dTasks' = dTasks]_vars

\* a conversation that used a temporary KB queue has ended, and a late frame
\* for it has just been handled
C37_Witness ==
    /\ dTasks["c1"] = "done"
    /\ dLast = Dispatch("other", "c1", "dropped")
    /\ dTasks["c2"] = "running"
    /\ KbGetConv("c2") \in dQueues

\* the entries a STORE carries before its last one are the newest entries of
\* the list that was read, in their order
KeptNewest(stored, read) ==
    LET kept == SubSeq(stored, 1, Len(stored) - 1) IN
    /\ Len(kept) <= Len(read)
    /\ kept = SubSeq(read, Len(read) - Len(kept) + 1, Len(read))
    /\ Len(kept) = IF Len(read) + 1 > HISTORY_LEN THEN HISTORY_LEN - 1 ELSE Len(read)

\* C38: a timeline value the Coordinator STOREs has at most HISTORY_LEN
\* entries, ends with the entry just journaled and keeps the entries read in
\* their order, the oldest dropped first
C38_StoredTimelineIsTruncatedTail ==
    (tlPc = "idle" /\ tlLast # NoStore) =>
        /\ Len(tlLast.value) >= 1
        /\ Len(tlLast.value) <= HISTORY_LEN
        /\ tlLast.value[Len(tlLast.value)] = tlItem
        /\ KeptNewest(tlLast.value, tlRead.value)

\* a STORE whose read list was full already: the oldest entry was dropped
C38_Witness ==
    /\ tlPc = "idle"
    /\ tlLast # NoStore
    /\ Len(tlRead.value) = HISTORY_LEN
    /\ tlLast.value = Append(Tail(tlRead.value), tlItem)

\* C39: a timeline STORE for a timeline that exists in the KB carries
\* if_match = "vN" with N the version of the KB's row, so that no
\* unconditional STORE replaces journaled entries, also after a GET that
\* timed out
C39_StoreOfExistingTimelineIsConditional ==
    (tlPc = "idle" /\ tlLast # NoStore /\ tlLast.kb.ver > 0) =>
        /\ tlRead.how = "value"
        /\ tlLast.if_match = <<"v">> \o DecStr(tlRead.ver)

\* C40: while the Presenter waits, a correlated REFUSE from the Coordinator
\* does not end the wait, and the correlated INFORM.PRESENTER_REPLY that
\* arrives after it, before the deadline, is put into the wait's queue
C40_ReplyAfterRefuseIsDelivered ==
    LET refusal == PFrame(COORD_JID, REFUSE, "ERROR", SessionId, RidOf(1), "")
        answer == PFrame(CoordFull, INFORM, "PRESENTER_REPLY", SessionId, RidOf(1), "hi") IN
    (/\ pTasks[1] = "wait"
     /\ now < pDeadline
     /\ \E i \in 1..Len(pQueue) : pQueue[i] = refusal
     /\ pLast.frame = answer)
    => pLast.outcome = "queued"

====
